---- MODULE Spec2Model ----
(***************************************************************************)
(* A model of the iced-ts front end: the Scanner (source string -> tokens) *)
(* and the recursive-descent Parser (tokens -> Block).  Both are modelled  *)
(* as the functions their code computes; the actions are the public        *)
(* methods reset(), scan() and parse() of the two classes.                 *)
(*                                                                         *)
(* Positions are 0-based as in the source; a sequence s holds the element  *)
(* of index i at s[i + 1].                                                 *)
(***************************************************************************)
EXTENDS Integers, Sequences, FiniteSets, TLC

VARIABLES
  scanner,    \* the Scanner object: [contents, pos, chunk]
  scanOut,    \* what scan() returned or threw
  tokens,     \* Parser.tokens
  state,      \* Parser.state (the ParserState after the last call)
  parseOut,   \* what parse() returned or threw
  pc          \* which call comes next

vars == <<scanner, scanOut, tokens, state, parseOut, pc>>

(***************************************************************************)
(* Bounds of the model.                                                    *)
(***************************************************************************)
MaxScanLen == 4

\* the longest chain of binary operators the parser is run on
MaxChain == 4

\* the most arguments of the implicit calls the parser is run on
MaxArgs == 3

\* the deepest indentation, in blanks, of the lines the parser is run on
MaxIndent == 4

\* the longest run of semicolons the parser is run on
MaxSemicolons == 3

MaxObjIndent == 3

(***************************************************************************)
(* Strings.  A source string is a sequence of one-character strings; Join  *)
(* gives the string a token's val holds.                                   *)
(***************************************************************************)
RECURSIVE Join(_)
Join(s) == IF s = <<>> THEN "" ELSE Head(s) \o Join(Tail(s))

Min(a, b) == IF a < b THEN a ELSE b

\* String.prototype.substr(start, len), clipped at the end of the string
Substr(s, start, len) == SubSeq(s, start + 1, Min(start + len, Len(s)))

\* String.prototype.indexOf(text) === 0
StartsWith(s, text) ==
  /\ Len(text) <= Len(s)
  /\ SubSeq(s, 1, Len(text)) = text

\* String.prototype.indexOf(c) for a single character; -1 when absent
RECURSIVE IndexFrom(_, _, _)
IndexFrom(s, c, i) ==
  IF i >= Len(s) THEN -1
  ELSE IF s[i + 1] = c THEN i
  ELSE IndexFrom(s, c, i + 1)

IndexOfChar(s, c) == IndexFrom(s, c, 0)

(***************************************************************************)
(* Scanner                                                                 *)
(***************************************************************************)
Digits == {"0", "1", "2", "3", "4", "5", "6", "7", "8", "9"}

Letters ==
  {"a", "b", "c", "d", "e", "f", "g", "h", "i", "j", "k", "l", "m",
   "n", "o", "p", "q", "r", "s", "t", "u", "v", "w", "x", "y", "z",
   "A", "B", "C", "D", "E", "F", "G", "H", "I", "J", "K", "L", "M",
   "N", "O", "P", "Q", "R", "S", "T", "U", "V", "W", "X", "Y", "Z"}

\* [$\w]: the characters above \x7e are outside the model's alphabet
IdentChars == Letters \cup Digits \cup {"_", "$"}

WhitespaceChars == {" ", "\t"}

\* the common table, in the order the object literal lists its keys
commonTokens == <<
  <<<<"-", ">">>, "FUNC">>,
  <<<<"=", ">">>, "FUNC">>,
  <<<<"\n">>, "NEWLINE">>,
  <<<<"+", "+">>, "OPERATOR">>,
  <<<<"-", "-">>, "OPERATOR">>,
  <<<<"i", "s">>, "OPERATOR">>,
  <<<<"i", "s", "n", "t">>, "OPERATOR">>,
  <<<<"=", "=">>, "OPERATOR">>,
  <<<<"!", "=">>, "OPERATOR">>,
  <<<<">", "=">>, "OPERATOR">>,
  <<<<"<", "=">>, "OPERATOR">>,
  <<<<">">>, "OPERATOR">>,
  <<<<"<">>, "OPERATOR">>,
  <<<<"=">>, "ASSIGN_OPERATOR">>,
  <<<<"+", "=">>, "ASSIGN_OPERATOR">>,
  <<<<"-", "=">>, "ASSIGN_OPERATOR">>,
  <<<<"*", "=">>, "ASSIGN_OPERATOR">>,
  <<<<"/", "=">>, "ASSIGN_OPERATOR">>,
  <<<<"^", "=">>, "ASSIGN_OPERATOR">>,
  <<<<"|", "=">>, "ASSIGN_OPERATOR">>,
  <<<<"+">>, "OPERATOR">>,
  <<<<"-">>, "OPERATOR">>,
  <<<<"/">>, "OPERATOR">>,
  <<<<"*">>, "OPERATOR">>,
  <<<<"^">>, "OPERATOR">>,
  <<<<"|">>, "OPERATOR">>,
  <<<<"r", "e", "t", "u", "r", "n">>, "RETURN">>,
  <<<<"i", "f">>, "IF">>,
  <<<<"u", "n", "l", "e", "s", "s">>, "UNLESS">>,
  <<<<"t", "h", "e", "n">>, "THEN">>,
  <<<<"e", "l", "s", "e">>, "ELSE">>,
  <<<<"f", "o", "r">>, "FOR">>,
  <<<<"u", "n", "t", "i", "l">>, "UNTIL">>,
  <<<<"l", "o", "o", "p">>, "LOOP">>,
  <<<<"i", "n">>, "IN">>,
  <<<<"o", "f">>, "OF">>,
  <<<<"b", "r", "e", "a", "k">>, "BREAK">>,
  <<<<"c", "o", "n", "t", "i", "n", "u", "e">>, "CONTINUE">>,
  <<<<"(">>, "(">>,
  <<<<")">>, ")">>,
  <<<<",">>, ",">>,
  <<<<";">>, ";">>,
  <<<<"{">>, "{">>,
  <<<<"}">>, "}">>,
  <<<<":">>, ":">>,
  <<<<"[">>, "[">>,
  <<<<"]">>, "]">>,
  <<<<"!">>, "UNARY_MATH">>,
  <<<<"~">>, "UNARY_MATH">>,
  <<<<"n", "e", "w">>, "UNARY">>,
  <<<<"t", "y", "p", "e", "o", "f">>, "UNARY">>,
  <<<<"d", "e", "l", "e", "t", "e">>, "UNARY">>,
  <<<<"t", "r", "u", "e">>, "BUILTIN_PRIMARY">>,
  <<<<"f", "a", "l", "s", "e">>, "BUILTIN_PRIMARY">>,
  <<<<"u", "n", "d", "e", "f", "i", "n", "e", "d">>, "BUILTIN_PRIMARY">>,
  <<<<"n", "u", "l", "l">>, "BUILTIN_PRIMARY">>,
  <<<<"@">>, "SHORT_THIS">>,
  <<<<"t", "h", "i", "s">>, "LONG_THIS">>,
  <<<<".", ".", ".">>, "...">>,
  <<<<".">>, ".">>
>>

isTrivia(type) == type \in {"WHITESPACE", "COMMENT"}

Token(type, val, consumed) == [type |-> type, val |-> val, consumed |-> consumed]

\* null
NoToken == [type |-> "null", val |-> "", consumed |-> 0]

\* the length of the longest prefix of s made of characters of set
RECURSIVE PrefixLen(_, _, _)
PrefixLen(s, set, i) ==
  IF i < Len(s) /\ s[i + 1] \in set THEN PrefixLen(s, set, i + 1) ELSE i

\* scanRegexp for the three patterns, each "one or more characters of a class"
scanRegexp(chunk, set, type) ==
  LET n == PrefixLen(chunk, set, 0)
      val == Substr(chunk, 0, n)
  IN IF n = 0 THEN NoToken ELSE Token(type, Join(val), Len(val))

\* identifierRxp = /^(?!\d)([$\w\x7f-\uffff]+)/
scanIdentifier(chunk) ==
  IF chunk # <<>> /\ chunk[1] \in Digits THEN NoToken
  ELSE scanRegexp(chunk, IdentChars, "IDENTIFIER")

\* numberRxp = /^[0-9]+/
scanNumber(chunk) == scanRegexp(chunk, Digits, "NUMBER")

\* whitespaceRxp = /^[ \t]+/
scanWhitespace(chunk) == scanRegexp(chunk, WhitespaceChars, "WHITESPACE")

\* the for loop of scanStringLiteral: the i it ends with, or -1 when it throws
RECURSIVE StringLoop(_, _, _)
StringLoop(chunk, qt, i) ==
  IF i >= Len(chunk) THEN i
  ELSE IF chunk[i + 1] = "\n" THEN -1
  ELSE IF chunk[i + 1] = "\\" THEN StringLoop(chunk, qt, i + 2)
  ELSE IF chunk[i + 1] = qt THEN i
  ELSE StringLoop(chunk, qt, i + 1)

ScanError == [type |-> "throw", val |-> "", consumed |-> 0]

scanStringLiteral(chunk) ==
  IF chunk # <<>> /\ chunk[1] \in {"\"", "'"}
  THEN LET i == StringLoop(chunk, chunk[1], 1)
           val == Substr(chunk, 0, i + 1)
       IN IF i = -1 THEN ScanError
          ELSE Token("STRING", Join(val), Len(val))
  ELSE NoToken

\* scanComment counting the line break into consumed but not into val
scanCommentPastNewline(chunk) ==
  IF chunk # <<>> /\ chunk[1] = "#"
  THEN LET found == IndexOfChar(chunk, "\n")
           newLinePos == IF found = -1 THEN Len(chunk) ELSE found
       IN Token("COMMENT", Join(Substr(chunk, 0, newLinePos)),
                Min(newLinePos + 1, Len(chunk)))
  ELSE NoToken

scanComment(chunk) ==
  IF chunk # <<>> /\ chunk[1] = "#"
  THEN LET found == IndexOfChar(chunk, "\n")
           newLinePos == IF found = -1 THEN Len(chunk) ELSE found
       IN Token("COMMENT", Join(Substr(chunk, 0, newLinePos)), newLinePos)
  ELSE NoToken

\* for (const text in commonTokens): the first key that is a prefix wins
RECURSIVE CommonFrom(_, _)
CommonFrom(chunk, k) ==
  IF k > Len(commonTokens) THEN NoToken
  ELSE LET text == commonTokens[k][1]
       IN IF StartsWith(chunk, text)
          THEN Token(commonTokens[k][2], Join(Substr(chunk, 0, Len(text))), Len(text))
          ELSE CommonFrom(chunk, k + 1)

scanCommon(chunk) == CommonFrom(chunk, 1)

\* scanCommon() || scanIdentifier() || scanNumber() || scanStringLiteral() ||
\* scanComment() || scanWhitespace()
scanOne(chunk) ==
  LET c == scanCommon(chunk)
      i == scanIdentifier(chunk)
      n == scanNumber(chunk)
      s == scanStringLiteral(chunk)
      m == scanComment(chunk)
  IN IF c # NoToken THEN c
     ELSE IF i # NoToken THEN i
     ELSE IF n # NoToken THEN n
     ELSE IF s # NoToken THEN s
     ELSE IF m # NoToken THEN m
     ELSE scanWhitespace(chunk)

\* the while loop of scan(), from a Scanner object sc with the tokens pushed so far
RECURSIVE scanLoop(_, _)
scanLoop(sc, toks) ==
  IF sc.pos < Len(sc.contents)
  THEN LET token == scanOne(sc.chunk)
       IN IF token = ScanError
          THEN [tag |-> "err", tokens |-> toks, msg |-> "endquote?", scanner |-> sc]
          ELSE IF token = NoToken
          THEN [tag |-> "err", tokens |-> toks, msg |-> "no token at", scanner |-> sc]
          ELSE scanLoop([sc EXCEPT !.pos = sc.pos + token.consumed,
                                   !.chunk = Substr(sc.chunk, token.consumed,
                                                    Len(sc.chunk))],
                        Append(toks, token))
  ELSE [tag |-> "ok", tokens |-> toks, msg |-> "", scanner |-> sc]

scan(sc) == scanLoop([sc EXCEPT !.chunk = sc.contents], <<>>)

\* reset(contents)
scannerReset(sc, contents) == [sc EXCEPT !.pos = 0, !.contents = contents]

(***************************************************************************)
(* Parser: results of the rule functions.  A rule returns a node ("ok"),   *)
(* undefined ("none") or throws ("err"); st is this.state when it leaves.  *)
(***************************************************************************)
Undef == [kind |-> "undefined"]

Ok(node, st) == [tag |-> "ok", node |-> node, st |-> st]
None(st) == [tag |-> "none", node |-> Undef, st |-> st]
Err(msg, st) == [tag |-> "err", node |-> [kind |-> "Error", msg |-> msg], st |-> st]

\* this.state = state
Restore(cur, saved) == saved

\* ParseExpressionState; exprIndent -1 stands for undefined
NoOpts == [exprIndent |-> -1, implicitFcallArg |-> FALSE]
ImplicitArgOpts == [exprIndent |-> -1, implicitFcallArg |-> TRUE]
IndentOpts(n) == [exprIndent |-> n, implicitFcallArg |-> FALSE]

operatorPriority(val) ==
  CASE val \in {"if", "unless"} -> 1
    [] val \in {"is", "isnt", "==", "!=", ">=", "<=", ">", "<"} -> 10
    [] val \in {"+", "-"} -> 50
    [] val \in {"*", "/"} -> 100
    [] OTHER -> -1   \* undefined

\* undefined, as peekToken() returns it
NoTok == [type |-> "undefined", val |-> "undefined", consumed |-> 0]

isUnary(token) ==
  \/ token.type \in {"UNARY", "UNARY_MATH"}
  \/ token.type = "OPERATOR" /\ token.val \in {"+", "-", "++", "--"}

isBinary(token) ==
  /\ token # NoTok
  /\ \/ /\ token.type = "OPERATOR"
        /\ token.val \in {"+", "-", "*", "/", "|", "^", "&", "is", "isnt", "==",
                          "!=", ">=", "<=", ">", "<", "<<", ">>>", ">>"}
     \/ token.type \in {"IF", "UNLESS", "IN", "OF"}

\* the index of the first token at or after i that is not trivia
RECURSIVE SkipTrivia(_)
SkipTrivia(i) ==
  IF i < Len(tokens) /\ isTrivia(tokens[i + 1].type) THEN SkipTrivia(i + 1) ELSE i

RECURSIVE SkipTriviaAndNewlines(_)
SkipTriviaAndNewlines(i) ==
  IF i < Len(tokens) /\ (isTrivia(tokens[i + 1].type) \/ tokens[i + 1].type = "NEWLINE")
  THEN SkipTriviaAndNewlines(i + 1) ELSE i

TokenAt(i) == IF i < Len(tokens) THEN tokens[i + 1] ELSE NoTok

peekToken(st) == TokenAt(SkipTrivia(st.pos))

peekTokenThroughNewlines(st) == TokenAt(SkipTriviaAndNewlines(st.pos))

\* peekSpace looking at the token peekToken() gives, which is never trivia
peekSpaceAfterTrivia(st) == peekToken(st).type = "WHITESPACE"

peekSpace(st) == TokenAt(st.pos).type = "WHITESPACE"

peekNewline(st) == peekToken(st).type = "NEWLINE"

takeToken(st) ==
  LET i == SkipTrivia(st.pos)
  IN IF i < Len(tokens)
     THEN Ok(tokens[i + 1], [st EXCEPT !.pos = i + 1])
     ELSE Err("Ran out of tokens", st)

\* st after a takeToken() that a peek has shown to succeed
Taken(st) == takeToken(st).st

currentIndentLevel(st) ==
  IF Len(st.indentStack) > 0 THEN st.indentStack[Len(st.indentStack)] ELSE -1

\* the loop of moveToNextLine not adding the blanks to the indent
RECURSIVE LineLoopFlat(_, _)
LineLoopFlat(pos, indent) ==
  IF pos < Len(tokens)
  THEN IF tokens[pos + 1].type \in {"WHITESPACE", "COMMENT", "NEWLINE"}
       THEN LineLoopFlat(pos + 1, 0)
       ELSE [pos |-> pos, indent |-> indent, foundToken |-> TRUE]
  ELSE [pos |-> pos, indent |-> indent, foundToken |-> FALSE]

\* the for loop of moveToNextLine
RECURSIVE LineLoop(_, _)
LineLoop(pos, indent) ==
  IF pos < Len(tokens)
  THEN LET type == tokens[pos + 1].type
       IN IF type = "WHITESPACE"
          THEN LineLoop(pos + 1, indent + Len(tokens[pos + 1].val))
          ELSE IF type = "COMMENT" THEN LineLoop(pos + 1, indent)
          ELSE IF type = "NEWLINE" THEN LineLoop(pos + 1, 0)
          ELSE [pos |-> pos, indent |-> indent, foundToken |-> TRUE]
  ELSE [pos |-> pos, indent |-> indent, foundToken |-> FALSE]

\* moveToNextLine(inBlock); the node of the result is the indent
moveToNextLine(st, inBlock) ==
  LET startPos == st.pos
      skipFirst == ~(inBlock /\ startPos = 0)
      first == IF skipFirst THEN takeToken(st) ELSE Ok(NoTok, st)
  IN IF first.tag = "err" THEN first
     ELSE IF skipFirst /\ first.node.type # "NEWLINE"
     THEN Err("BUG: cannot do moveToNextLine() while not at NEWLINE", first.st)
     ELSE LET l == LineLoop(IF skipFirst THEN startPos + 1 ELSE startPos, 0)
              st1 == IF inBlock /\ ~l.foundToken
                     THEN [first.st EXCEPT !.eof = TRUE] ELSE first.st
          IN IF ~inBlock /\ Len(st1.indentStack) = 0
             THEN Err("BUG: currentIndentLevel but indentStack is empty", st1)
             ELSE IF ~inBlock /\ l.indent < currentIndentLevel(st1)
             THEN Err("missing indent", st1)
             ELSE Ok(l.indent, [st1 EXCEPT !.pos = l.pos])

(***************************************************************************)
(* Nodes                                                                   *)
(***************************************************************************)
Number(content) == [kind |-> "Number", content |-> content]
Identifier(content) == [kind |-> "Identifier", content |-> content]
StringLiteral(content) == [kind |-> "StringLiteral", content |-> content]
BuiltinPrimaryExpression(token) == [kind |-> "BuiltinPrimaryExpression", token |-> token]
ThisExpression(token) == [kind |-> "ThisExpression", token |-> token]
PropertyAccess(target, access) ==
  [kind |-> "PropertyAccess", target |-> target, access |-> access]
Parens(contents) == [kind |-> "Parens", contents |-> contents]
BinaryExpression(left, operator, right) ==
  [kind |-> "BinaryExpression", left |-> left, operator |-> operator, right |-> right]
PrefixUnaryExpression(operator, expr) ==
  [kind |-> "PrefixUnaryExpression", operator |-> operator, expr |-> expr]
PostfixUnaryExpression(operator, expr) ==
  [kind |-> "PostfixUnaryExpression", operator |-> operator, expr |-> expr]
SplatExpression(expr) == [kind |-> "SplatExpression", expr |-> expr]
FunctionCall(target, args) == [kind |-> "FunctionCall", target |-> target, args |-> args]
Assign(target, operator, value) ==
  [kind |-> "Assign", target |-> target, operator |-> operator, value |-> value]
ObjectLiteralNoProperties(properties) == [kind |-> "ObjectLiteral", properties |-> <<>>]
ObjectLiteral(properties) == [kind |-> "ObjectLiteral", properties |-> properties]
Function(args, body, bindThis) ==
  [kind |-> "Function", args |-> args, body |-> body, bindThis |-> bindThis]
Block(expressions, indent) ==
  [kind |-> "Block", expressions |-> expressions, indent |-> indent]
IfExpression(operator, condition, block, elsePart) ==
  [kind |-> "IfExpression", operator |-> operator, condition |-> condition,
   block |-> block, elsePart |-> elsePart]
LoopExpression(operator, condition, block) ==
  [kind |-> "LoopExpression", operator |-> operator, condition |-> condition,
   block |-> block]
ForExpression(operator, iter, iter2, iterType, target, block) ==
  [kind |-> "ForExpression", operator |-> operator, iter |-> iter, iter2 |-> iter2,
   iterType |-> iterType, target |-> target, block |-> block]
ForExpression2(expr, loop) == [kind |-> "ForExpression2", expr |-> expr, loop |-> loop]
ReturnStatement(expr) == [kind |-> "ReturnStatement", expr |-> expr]

\* new nodes.Block(): no expressions, indent 0
EmptyBlock == Block(<<>>, 0)

(***************************************************************************)
(* Parser: the rule functions.  Each takes this.state as st and returns a  *)
(* result; loops are the recursive operators named ...Loop.  The rules     *)
(* call one another as this.<name>(...): Call(name, args) is that call,    *)
(* with the arguments in the order of the parameters.                      *)
(***************************************************************************)
RECURSIVE Call(_, _)

parseNumber(st) ==
  LET token == peekToken(st)
  IN IF token.type = "NUMBER" THEN Ok(Number(token.val), Taken(st)) ELSE None(st)

parseIdentifier(st) ==
  LET token == peekToken(st)
  IN IF token.type = "IDENTIFIER" THEN Ok(Identifier(token.val), Taken(st)) ELSE None(st)

parseStringLiteral(st) ==
  LET token == peekToken(st)
  IN IF token.type = "STRING" THEN Ok(StringLiteral(token.val), Taken(st)) ELSE None(st)

parseBuiltinPrimary(st) ==
  LET maybeBP == peekToken(st)
  IN IF maybeBP.type = "BUILTIN_PRIMARY"
     THEN Ok(BuiltinPrimaryExpression(maybeBP), Taken(st)) ELSE None(st)

parseThisAccess(st) ==
  LET maybeShortThis == peekToken(st)
  IN IF maybeShortThis.type = "SHORT_THIS"
     THEN LET pos == st.pos
              st1 == Taken(st)
              id == Call("parseIdentifier", <<st1>>)
          IN IF peekSpace(st1) THEN None([st1 EXCEPT !.pos = pos])
             ELSE IF id.tag = "none" THEN Err("unexpected after '@'", id.st)
             ELSE Ok(PropertyAccess(ThisExpression(maybeShortThis), id.node), id.st)
     ELSE None(st)

\* this.parseIdentifier() ?? this.parseThisAccess()
parseLeftHandValue(st) ==
  LET id == Call("parseIdentifier", <<st>>)
  IN IF id.tag # "none" THEN id ELSE Call("parseThisAccess", <<id.st>>)

\* this.parseIdentifier() ?? this.parseNumber() ?? this.parseStringLiteral()
parseObjectKey(st) ==
  LET id == Call("parseIdentifier", <<st>>)
      num == Call("parseNumber", <<id.st>>)
  IN IF id.tag # "none" THEN id
     ELSE IF num.tag # "none" THEN num
     ELSE Call("parseStringLiteral", <<num.st>>)

\* if (this.peekNewline()) { this.moveToNextLine() }
skipNewline(st) == IF peekNewline(st) THEN moveToNextLine(st, FALSE) ELSE Ok(0, st)

parseFunctionCallArgument(st, exprOpts) ==
  LET expr == Call("parseExpression", <<st, exprOpts>>)
  IN IF expr.tag # "ok" THEN expr
     ELSE IF peekToken(expr.st).type = "..."
     THEN Ok(SplatExpression(expr.node), Taken(expr.st))
     ELSE expr

\* the while (true) of parseImplicitFunctionCallArguments; impBlockIdent -1 is
\* undefined
ImplicitArgsLoop(st, args, hadComma, blockIndent, impBlockIdent) ==
  LET lastPos == st.pos
      moved == IF peekNewline(st) THEN moveToNextLine(st, TRUE) ELSE Ok(-1, st)
      newIndent == moved.node
      imp == IF peekNewline(st) /\ newIndent > blockIndent THEN newIndent
             ELSE impBlockIdent
      giveBack == [moved.st EXCEPT !.pos = lastPos]
      expr == Call("parseFunctionCallArgument", <<moved.st, ImplicitArgOpts>>)
      comma == peekToken(expr.st).type = ","
  IN IF moved.tag = "err" THEN moved
     ELSE IF peekNewline(st) /\ ~hadComma /\ newIndent <= blockIndent
     THEN Ok(args, giveBack)
     ELSE IF peekNewline(st) /\ ~hadComma /\ imp = -1
     THEN Err("unexpected indentation", moved.st)
     ELSE IF peekNewline(st) /\ ~hadComma /\ newIndent <= imp
     THEN Ok(args, giveBack)
     ELSE IF peekNewline(st) /\ hadComma /\ newIndent < blockIndent
     THEN Err("missing indentation", moved.st)
     ELSE IF expr.tag = "err" THEN expr
     ELSE IF expr.tag = "none"
     THEN IF hadComma THEN Err("Expected another expression after comma", expr.st)
          ELSE Ok(args, expr.st)
     ELSE Call("ImplicitArgsLoop", <<IF comma THEN Taken(expr.st) ELSE expr.st,
                           Append(args, expr.node), comma, blockIndent, imp>>)

parseImplicitFunctionCallArguments(st) ==
  LET firstArg == Call("parseFunctionCallArgument", <<st, ImplicitArgOpts>>)
  IN IF firstArg.tag = "err" THEN firstArg
     ELSE IF firstArg.tag = "none" THEN None(Restore(firstArg.st, st))
     ELSE IF peekToken(firstArg.st).type # "," THEN Ok(<<firstArg.node>>, firstArg.st)
     ELSE IF Len(firstArg.st.indentStack) = 0
     THEN Err("BUG: currentIndentLevel but indentStack is empty", Taken(firstArg.st))
     ELSE Call("ImplicitArgsLoop", <<Taken(firstArg.st), <<firstArg.node>>, TRUE,
                           currentIndentLevel(firstArg.st), -1>>)

\* while (this.peekToken()?.type === ',') of the parenthesized argument list
ParenArgsLoop(st, args) ==
  IF peekToken(st).type = ","
  THEN LET moved == Call("skipNewline", <<Taken(st)>>)
           arg == Call("parseFunctionCallArgument", <<moved.st, NoOpts>>)
       IN IF moved.tag = "err" THEN moved
          ELSE IF arg.tag = "err" THEN arg
          ELSE IF arg.tag = "none"
          THEN Err("Expected an expression after ',' in function call", arg.st)
          ELSE Call("ParenArgsLoop", <<arg.st, Append(args, arg.node)>>)
  ELSE Ok(args, st)

\* the parenthesized argument list, from after its '(' to after its ')'
ParenArgs(st) ==
  LET moved == Call("skipNewline", <<st>>)
      firstArg == Call("parseFunctionCallArgument", <<moved.st, NoOpts>>)
      list == IF firstArg.tag = "ok" THEN Call("ParenArgsLoop", <<firstArg.st, <<firstArg.node>>>>)
              ELSE Ok(<<>>, firstArg.st)
      moved2 == Call("skipNewline", <<list.st>>)
      close == takeToken(moved2.st)
  IN IF moved.tag = "err" THEN moved
     ELSE IF firstArg.tag = "err" THEN firstArg
     ELSE IF list.tag = "err" THEN list
     ELSE IF moved2.tag = "err" THEN moved2
     ELSE IF close.tag = "err" THEN close
     ELSE IF close.node.type # ")" THEN Err("Expected ) in function call", close.st)
     ELSE Ok(list.node, close.st)

chainFCall(target, ret, args) ==
  IF ret = Undef THEN FunctionCall(target, args) ELSE FunctionCall(ret, args)

\* the while (true) of parseFunctionCall; ret is Undef until a call is chained
FunctionCallLoop(st, target, ret) ==
  IF peekSpace(st)
  THEN LET args == Call("parseImplicitFunctionCallArguments", <<st>>)
       IN IF args.tag = "err" THEN args
          ELSE IF args.tag = "none" THEN Ok(ret, args.st)
          ELSE Call("FunctionCallLoop", <<args.st, target, chainFCall(target, ret, args.node)>>)
  ELSE IF peekToken(st).type = "("
  THEN LET args == Call("ParenArgs", <<Taken(st)>>)
       IN IF args.tag = "err" THEN args
          ELSE Call("FunctionCallLoop", <<args.st, target, chainFCall(target, ret, args.node)>>)
  ELSE Ok(ret, st)

\* parseFunctionCall that leaves the state where the target ended when no
\* argument list follows it
parseFunctionCallKeepsTarget(st) ==
  LET st1 == [st EXCEPT !.inFCall = st.inFCall + 1]
      id == Call("parseIdentifier", <<st1>>)
      this == Call("parseThisAccess", <<id.st>>)
      target == IF id.tag # "none" THEN id
                ELSE IF this.tag # "none" THEN this
                ELSE Call("parseParentesiszedExpr", <<this.st>>)
      st2 == [target.st EXCEPT !.inFCall = target.st.inFCall - 1]
      ret == Call("FunctionCallLoop", <<st2, target.node, Undef>>)
  IN IF target.tag = "err" THEN target
     ELSE IF target.tag = "none" THEN None(Restore(target.st, st))
     ELSE IF ret.tag = "err" THEN ret
     ELSE IF ret.node = Undef THEN None(ret.st)
     ELSE ret

parseFunctionCall(st) ==
  LET st1 == [st EXCEPT !.inFCall = st.inFCall + 1]
      id == Call("parseIdentifier", <<st1>>)
      this == Call("parseThisAccess", <<id.st>>)
      target == IF id.tag # "none" THEN id
                ELSE IF this.tag # "none" THEN this
                ELSE Call("parseParentesiszedExpr", <<this.st>>)
      st2 == [target.st EXCEPT !.inFCall = target.st.inFCall - 1]
      ret == Call("FunctionCallLoop", <<st2, target.node, Undef>>)
  IN IF target.tag = "err" THEN target
     ELSE IF target.tag = "none" THEN None(Restore(target.st, st))
     ELSE IF ret.tag = "err" THEN ret
     ELSE IF ret.node = Undef THEN None(Restore(ret.st, st))
     ELSE ret

\* Parse `x for x in arr`, so an expression followed by a forExpression.
\* parseForExpression2 without the early return for an implicit call argument
parseForExpression2Greedy(st, opts) ==
  LET expr == Call("parseBinaryExpr", <<st, opts>>)
      forExpr == Call("parseForExpression", <<expr.st, NoOpts, TRUE>>)
  IN IF expr.tag # "ok" THEN expr
     ELSE IF peekToken(expr.st).type # "FOR" THEN expr
     ELSE IF forExpr.tag = "err" THEN forExpr
     ELSE IF forExpr.tag = "none"
     THEN Err("We are in for expression but 'for' could not be parsed", forExpr.st)
     ELSE Ok(ForExpression2(expr.node, forExpr.node), forExpr.st)

parseForExpression2(st, opts) ==
  LET expr == Call("parseBinaryExpr", <<st, opts>>)
      forExpr == Call("parseForExpression", <<expr.st, opts, TRUE>>)
  IN IF expr.tag # "ok" THEN expr
     ELSE IF opts.implicitFcallArg THEN expr
     ELSE IF peekToken(expr.st).type # "FOR" THEN expr
     ELSE IF forExpr.tag = "err" THEN forExpr
     ELSE IF forExpr.tag = "none"
     THEN Err("We are in for expression but 'for' could not be parsed", forExpr.st)
     ELSE Ok(ForExpression2(expr.node, forExpr.node), forExpr.st)

\* the loop of parseBinaryExpr without the rotation: always left-leaning
RECURSIVE BinaryLoopLeftLeaning(_, _, _)
BinaryLoopLeftLeaning(st, left, opts) ==
  IF isBinary(peekToken(st))
  THEN IF opts.implicitFcallArg /\ peekToken(st).type \in {"IF", "UNLESS"}
       THEN Ok(left, st)
       ELSE LET opToken == peekToken(st)
                moved == Call("skipNewline", <<Taken(st)>>)
                right == Call("parseUnaryExpr", <<moved.st, NoOpts>>)
            IN IF moved.tag = "err" THEN moved
               ELSE IF right.tag = "err" THEN right
               ELSE IF right.tag = "none" THEN Err("parse error after", right.st)
               ELSE BinaryLoopLeftLeaning(right.st,
                      BinaryExpression(left, opToken, right.node), opts)
  ELSE Ok(left, st)

\* the while (isBinary(this.peekToken())) of parseBinaryExpr
BinaryLoop(st, left, opts) ==
  IF isBinary(peekToken(st))
  THEN IF opts.implicitFcallArg /\ peekToken(st).type \in {"IF", "UNLESS"}
       THEN Ok(left, st)
       ELSE LET opToken == peekToken(st)
                moved == Call("skipNewline", <<Taken(st)>>)
                right == Call("parseUnaryExpr", <<moved.st, NoOpts>>)
            IN IF moved.tag = "err" THEN moved
               ELSE IF right.tag = "err" THEN right
               ELSE IF right.tag = "none" THEN Err("parse error after", right.st)
               ELSE IF left.kind = "BinaryExpression"
               THEN IF operatorPriority(opToken.val) = -1
                    THEN Err("undefined operator priority", right.st)
                    ELSE IF operatorPriority(left.operator.val) = -1
                    THEN Err("undefined operator priority", right.st)
                    ELSE IF operatorPriority(opToken.val) >
                            operatorPriority(left.operator.val)
                    THEN Call("BinaryLoop", <<right.st,
                                    [left EXCEPT !.right =
                                       BinaryExpression(left.right, opToken, right.node)],
                                    opts>>)
                    ELSE Call("BinaryLoop", <<right.st,
                                    BinaryExpression(left, opToken, right.node), opts>>)
               ELSE Call("BinaryLoop", <<right.st,
                               BinaryExpression(left, opToken, right.node), opts>>)
  ELSE Ok(left, st)

parseBinaryExpr(st, opts) ==
  LET left == Call("parseUnaryExpr", <<st, opts>>)
  IN IF left.tag # "ok" THEN left ELSE Call("BinaryLoop", <<left.st, left.node, opts>>)

\* the block of a loop taken without the 'Empty block' check
nonEmptyBlockUnchecked(block, what) == block

\* a block that an 'Empty block' check follows
nonEmptyBlock(block, what) ==
  IF block.tag = "err" THEN block
  ELSE IF Len(block.node.expressions) = 0
  THEN Err("Empty block in " \o what, block.st)
  ELSE block

\* an optional THEN; a newline after it throws
optionalThen(st) ==
  IF peekToken(st).type = "THEN"
  THEN IF peekNewline(Taken(st)) THEN Err("Unexpected newline after 'then'", Taken(st))
       ELSE Ok(Undef, Taken(st))
  ELSE Ok(Undef, st)

parseLoopExpression(st) ==
  IF peekToken(st).type # "LOOP" THEN None(st)
  ELSE LET operator == peekToken(st)
           block == nonEmptyBlock(Call("parseBlock", <<Taken(st), FALSE, FALSE>>), "a 'loop' expression")
       IN IF block.tag = "err" THEN block
          ELSE Ok(LoopExpression(operator, Undef, block.node), block.st)

parseUntilExpression(st) ==
  IF peekToken(st).type # "UNTIL" THEN None(st)
  ELSE LET operator == peekToken(st)
           condition == Call("parseExpression", <<Taken(st), NoOpts>>)
           then == Call("optionalThen", <<condition.st>>)
           block == nonEmptyBlock(Call("parseBlock", <<then.st, FALSE, FALSE>>), "a 'until' expression")
       IN IF condition.tag = "err" THEN condition
          ELSE IF condition.tag = "none"
          THEN Err("Expected an expression after 'until'", condition.st)
          ELSE IF then.tag = "err" THEN then
          ELSE IF block.tag = "err" THEN block
          ELSE Ok(LoopExpression(operator, condition.node, block.node), block.st)

parseForExpression(st, opts, binaryForExpr) ==
  IF opts.implicitFcallArg THEN None(st)
  ELSE IF peekToken(st).type # "FOR" THEN None(st)
  ELSE LET operator == peekToken(st)
           iter1 == Call("parseLeftHandValue", <<Taken(st)>>)
           hasComma == peekToken(iter1.st).type = ","
           iter2 == IF hasComma THEN Call("parseLeftHandValue", <<Taken(iter1.st)>>)
                    ELSE Ok(Undef, iter1.st)
           iterType == takeToken(iter2.st)
           target == Call("parseExpression", <<iterType.st, NoOpts>>)
           then == Call("optionalThen", <<target.st>>)
           block == IF binaryForExpr THEN Ok(Undef, then.st)
                    ELSE nonEmptyBlock(Call("parseBlock", <<then.st, FALSE, FALSE>>),
                                       "a 'for' expression")
       IN IF iter1.tag = "err" THEN iter1
          ELSE IF iter1.tag = "none"
          THEN Err("Expected left-hand value after 'for'", iter1.st)
          ELSE IF iter2.tag = "err" THEN iter2
          ELSE IF iter2.tag = "none"
          THEN Err("Expected left-hand value after ',' in 'for' expression", iter2.st)
          ELSE IF iterType.tag = "err" THEN iterType
          ELSE IF iterType.node.type \notin {"IN", "OF"}
          THEN Err("Expected 'in' or 'of' after iterator", iterType.st)
          ELSE IF target.tag = "err" THEN target
          ELSE IF target.tag = "none"
          THEN Err("Expected an expression after 'for'", target.st)
          ELSE IF then.tag = "err" THEN then
          ELSE IF block.tag = "err" THEN block
          ELSE Ok(ForExpression(operator, iter1.node, iter2.node, iterType.node,
                                target.node, block.node), block.st)

\* this.parseLoopExpression() ?? this.parseUntilExpression() ??
\* this.parseForExpression(opts)
parseAnyLoopExpression(st, opts) ==
  LET loop == Call("parseLoopExpression", <<st>>)
      until == Call("parseUntilExpression", <<loop.st>>)
  IN IF loop.tag # "none" THEN loop
     ELSE IF until.tag # "none" THEN until
     ELSE Call("parseForExpression", <<until.st, opts, FALSE>>)

\* the else part of parseIfExpression, from after the ELSE token
elsePartOf(st) ==
  IF peekToken(st).type \in {"IF", "UNLESS"}
  THEN Call("parseIfExpression", <<st, NoOpts>>)
  ELSE LET elsePart == Call("parseBlock", <<st, FALSE, FALSE>>)
       IN IF elsePart.tag = "err" THEN elsePart
          ELSE IF Len(elsePart.node.expressions) = 0
          THEN Err("Empty block after 'else'", elsePart.st)
          ELSE elsePart

parseIfExpression(st, opts) ==
  IF peekToken(st).type \notin {"IF", "UNLESS"} THEN None(st)
  ELSE LET operator == peekToken(st)
           condition == Call("parseExpression", <<Taken(st), NoOpts>>)
           hasThen == peekToken(condition.st).type = "THEN"
           then == Call("optionalThen", <<condition.st>>)
           block == Call("parseBlock", <<then.st, FALSE, TRUE>>)
           hasElse == peekToken(block.st).type = "ELSE"
           elsePart == IF hasElse THEN Call("elsePartOf", <<Taken(block.st)>>)
                       ELSE Ok(Undef, block.st)
       IN IF condition.tag = "err" THEN condition
          ELSE IF condition.tag = "none"
          THEN Err("Expected an expression after if", condition.st)
          ELSE IF then.tag = "err" THEN then
          ELSE IF ~hasThen /\ ~peekNewline(condition.st)
          THEN IF opts.implicitFcallArg THEN None(Restore(condition.st, st))
               ELSE Err("Unexpected after condition in if statement", condition.st)
          ELSE IF block.tag = "err" THEN block
          ELSE IF Len(block.node.expressions) = 0
          THEN IF opts.implicitFcallArg THEN None(Restore(block.st, st))
               ELSE Err("Empty block in an '" \o operator.val \o "'", block.st)
          ELSE IF elsePart.tag = "err" THEN elsePart
          ELSE Ok(IfExpression(operator, condition.node, block.node, elsePart.node),
                  elsePart.st)

\* parseAssign refusing a value that is itself an assignment
parseAssignUnchained(st) ==
  LET target == Call("parseLeftHandValue", <<st>>)
      operator == peekToken(target.st)
      afterOp == Taken(target.st)
      moved == Call("skipNewline", <<afterOp>>)
      opts == IF peekNewline(afterOp) /\ moved.node >= currentIndentLevel(moved.st)
              THEN IndentOpts(moved.node) ELSE NoOpts
      value == Call("parseExpression", <<moved.st, opts>>)
  IN IF target.tag # "ok" THEN target
     ELSE IF operator.type # "ASSIGN_OPERATOR" THEN None(Restore(target.st, st))
     ELSE IF moved.tag = "err" THEN moved
     ELSE IF value.tag = "err" THEN value
     ELSE IF value.tag = "none" \/ value.node.kind = "Assign"
     THEN Err("Expected an expression after assignment operator", value.st)
     ELSE Ok(Assign(target.node, operator, value.node), value.st)

parseAssign(st) ==
  LET target == Call("parseLeftHandValue", <<st>>)
      operator == peekToken(target.st)
      afterOp == Taken(target.st)
      moved == Call("skipNewline", <<afterOp>>)
      opts == IF peekNewline(afterOp) /\ moved.node >= currentIndentLevel(moved.st)
              THEN IndentOpts(moved.node) ELSE NoOpts
      value == Call("parseExpression", <<moved.st, opts>>)
  IN IF target.tag # "ok" THEN target
     ELSE IF operator.type # "ASSIGN_OPERATOR" THEN None(Restore(target.st, st))
     ELSE IF moved.tag = "err" THEN moved
     ELSE IF value.tag = "err" THEN value
     ELSE IF value.tag = "none"
     THEN Err("Expected an expression after assignment operator", value.st)
     ELSE Ok(Assign(target.node, operator, value.node), value.st)

\* the for (;;) of parseObjectLiteral; stateBeforeNewline is Undef until set
ObjectLoop(st, props, lastIndent, stateBeforeNewline, hadNewline, isBracketed, minIndent, inlineObject) ==
  IF isBracketed /\ peekToken(st).type = "}" THEN Ok(props, st)
  ELSE
  LET id == Call("parseObjectKey", <<st>>)
      afterColon == Taken(id.st)
      valueOnNewLine == peekNewline(afterColon)
      moved == Call("skipNewline", <<afterColon>>)
      exprOpts == IF valueOnNewLine THEN IndentOpts(moved.node)
                  ELSE IndentOpts(lastIndent)
      value == Call("parseExpression", <<moved.st, exprOpts>>)
      props1 == Append(props, [propertyId |-> id.node, value |-> value.node])
      \* the optional comma
      hadComma == peekTokenThroughNewlines(value.st).type = ","
      commaOnNewLine == hadComma /\ peekNewline(value.st)
      commaMoved == IF commaOnNewLine THEN moveToNextLine(value.st, FALSE)
                    ELSE Ok(-1, value.st)
      commaIndent == commaMoved.node
      lastIndent1 == IF commaOnNewLine /\ commaIndent < lastIndent THEN commaIndent
                     ELSE lastIndent
      comma == IF hadComma THEN takeToken(commaMoved.st) ELSE Ok(NoTok, commaMoved.st)
      \* the newline after the pair
      atNewline == peekNewline(comma.st)
      before1 == IF atNewline /\ ~isBracketed THEN comma.st ELSE stateBeforeNewline
      lineMoved == IF atNewline THEN moveToNextLine(comma.st, ~isBracketed)
                   ELSE Ok(-1, comma.st)
      newIndent == lineMoved.node
  IN IF id.tag = "none"
     THEN IF isBracketed
          THEN Err("Expected identifier, number, or string literal after '{'", id.st)
          ELSE Ok(props, id.st)
     ELSE IF peekToken(id.st).type # ":"
     THEN IF isBracketed \/ ~hadNewline
          THEN Err("Expected ':' after identifier in object body", id.st)
          ELSE IF stateBeforeNewline = Undef
          THEN Err("BUG: stateBeforeNewline is undefined here", id.st)
          ELSE Ok(props, Restore(id.st, stateBeforeNewline))
     ELSE IF moved.tag = "err" THEN moved
     ELSE IF valueOnNewLine /\ moved.node <= lastIndent
     THEN Err("Missing indent. When object value starts on separate line", moved.st)
     ELSE IF value.tag = "err" THEN value
     ELSE IF value.tag = "none" THEN Err("Expected an expression after ':'", value.st)
     ELSE IF commaMoved.tag = "err" THEN commaMoved
     ELSE IF commaOnNewLine /\ commaIndent < minIndent
     THEN Err("Missing indentation. Everything in object block", commaMoved.st)
     ELSE IF comma.tag = "err" THEN comma
     ELSE IF hadComma /\ comma.node.type # ","
     THEN Err("BUG: Tried to consume ','", comma.st)
     ELSE IF ~atNewline
     THEN Call("ObjectLoop", <<comma.st, props1, lastIndent1, before1, FALSE,
                     isBracketed, minIndent, inlineObject>>)
     ELSE IF lineMoved.tag = "err" THEN lineMoved
     ELSE IF peekToken(lineMoved.st).type = "}" THEN Ok(props1, lineMoved.st)
     ELSE IF newIndent > lastIndent1
     THEN Err("Unexpected indent. Key in an object body", lineMoved.st)
     ELSE IF newIndent < minIndent
     THEN IF isBracketed
          THEN Err("Missing indentation. Everything in object block", lineMoved.st)
          ELSE IF before1 = Undef
          THEN Err("BUG: stateBeforeNewline is undefined here", lineMoved.st)
          ELSE Ok(props1, Restore(lineMoved.st, before1))
     ELSE IF ~isBracketed /\ inlineObject /\ ~hadComma
     THEN IF before1 = Undef
          THEN Err("BUG: stateBeforeNewline is undefined here", lineMoved.st)
          ELSE Ok(props1, Restore(lineMoved.st, before1))
     ELSE Call("ObjectLoop", <<lineMoved.st, props1, newIndent, before1, TRUE,
                     isBracketed, minIndent, inlineObject>>)

parseObjectLiteral(st, opts) ==
  LET isBracketed == peekToken(st).type = "{"
      hasKey == Call("parseObjectKey", <<st>>)
      hasColon == peekToken(hasKey.st).type = ":"
      st1 == IF isBracketed THEN Taken(st) ELSE Restore(hasKey.st, st)
      inlineObject == opts.exprIndent = -1
      enteredIndent == IF opts.exprIndent # -1 THEN opts.exprIndent
                       ELSE currentIndentLevel(st1)
      minIndent == enteredIndent
      bodyOnNewLine == isBracketed /\ peekNewline(st1)
      moved == IF bodyOnNewLine THEN moveToNextLine(st1, FALSE) ELSE Ok(-1, st1)
      lastIndent == IF bodyOnNewLine THEN moved.node ELSE enteredIndent
      loop == Call("ObjectLoop", <<moved.st, <<>>, lastIndent, Undef, FALSE,
                         isBracketed, minIndent, inlineObject>>)
      closingBr == takeToken(loop.st)
  IN IF ~isBracketed /\ hasKey.tag = "none" THEN None(hasKey.st)
     ELSE IF ~isBracketed /\ ~hasColon THEN None(st1)
     ELSE IF opts.exprIndent = -1 /\ Len(st1.indentStack) = 0
     THEN Err("BUG: currentIndentLevel but indentStack is empty", st1)
     ELSE IF moved.tag = "err" THEN moved
     ELSE IF bodyOnNewLine /\ moved.node < enteredIndent
     THEN Err("Missing indent. Object literal body", moved.st)
     ELSE IF loop.tag = "err" THEN loop
     ELSE IF ~isBracketed THEN Ok(ObjectLiteral(loop.node), loop.st)
     ELSE IF closingBr.tag = "err" THEN closingBr
     ELSE IF closingBr.node.type # "}"
     THEN Err("Expected '}' to close the object", closingBr.st)
     ELSE Ok(ObjectLiteral(loop.node), closingBr.st)

FunctionParam(param, defaultValue, splat) ==
  [param |-> param, defaultValue |-> defaultValue, splat |-> splat]

parseFunctionParam(st) ==
  LET param == Call("parseIdentifier", <<st>>)
      state1 == param.st
      next == peekToken(state1)
      defaultValue == Call("parseExpression", <<Taken(state1), NoOpts>>)
      splat == next.type = "..."
  IN IF param.tag = "none" THEN param
     ELSE IF next.type = "ASSIGN_OPERATOR" /\ next.val = "="
     THEN IF defaultValue.tag = "err" THEN defaultValue
          ELSE IF defaultValue.tag = "none" THEN None(Restore(defaultValue.st, state1))
          ELSE Ok(FunctionParam(param.node, defaultValue.node, FALSE), defaultValue.st)
     ELSE Ok(FunctionParam(param.node, Undef, splat),
             IF splat THEN Taken(state1) ELSE state1)

\* the while (true) of parseFunction, after the first parameter
FunctionParamsLoop(st, argList, saved) ==
  IF peekToken(st).type # "," THEN Ok(argList, st)
  ELSE LET param == Call("parseFunctionParam", <<Taken(st)>>)
       IN IF param.tag = "err" THEN param
          ELSE IF param.tag = "none" THEN None(Restore(param.st, saved))
          ELSE Call("FunctionParamsLoop", <<param.st, Append(argList, param.node), saved>>)

\* the parameter list of parseFunction, from its '(' to after its ')'
FunctionParams(st, saved) ==
  LET st1 == [Taken(st) EXCEPT !.inParens = @ + 1]
      firstArg == Call("parseFunctionParam", <<st1>>)
      rest == Call("FunctionParamsLoop", <<firstArg.st, <<firstArg.node>>, saved>>)
      list == IF peekToken(st1).type = ")" THEN Ok(<<>>, st1)
              ELSE IF firstArg.tag = "err" THEN firstArg
              ELSE IF firstArg.tag = "none" THEN None(Restore(firstArg.st, saved))
              ELSE rest
  IN IF list.tag # "ok" THEN list
     ELSE IF peekToken(list.st).type # ")" THEN None(Restore(list.st, saved))
     ELSE Ok(list.node, [Taken(list.st) EXCEPT !.inParens = @ - 1])

parseFunction(st) ==
  LET argList == IF peekToken(st).type = "(" THEN Call("FunctionParams", <<st, st>>)
                 ELSE Ok(<<>>, st)
      funcToken == peekToken(argList.st)
      body == Call("parseBlock", <<Taken(argList.st), FALSE, FALSE>>)
  IN IF argList.tag # "ok" THEN argList
     ELSE IF funcToken.type # "FUNC" THEN None(Restore(argList.st, st))
     ELSE IF body.tag = "err" THEN body
     ELSE Ok(Function(argList.node, body.node, funcToken.val = "=>"), body.st)

parseUnaryExpr(st, opts) ==
  LET maybePrefix == peekToken(st)
      pos == st.pos
      afterOp == Taken(st)
      moved == Call("skipNewline", <<afterOp>>)
      operand == Call("parsePrimaryExpr", <<moved.st, NoOpts>>)
      expr == Call("parsePrimaryExpr", <<st, opts>>)
      maybePostfix == peekToken(expr.st)
  IN IF maybePrefix # NoTok /\ isUnary(maybePrefix)
     THEN IF opts.implicitFcallArg /\ peekSpace(afterOp)
          THEN None([afterOp EXCEPT !.pos = pos])
          ELSE IF moved.tag = "err" THEN moved
          ELSE IF operand.tag = "err" THEN operand
          ELSE IF operand.tag = "none"
          THEN Err("Expected expression after unary operator", operand.st)
          ELSE Ok(PrefixUnaryExpression(maybePrefix, operand.node), operand.st)
     ELSE IF expr.tag = "ok" /\ ~peekSpace(expr.st)
             /\ maybePostfix.type = "OPERATOR" /\ maybePostfix.val \in {"++", "--"}
     THEN Ok(PostfixUnaryExpression(maybePostfix, expr.node), Taken(expr.st))
     ELSE expr

\* the chain of ?? of parsePrimaryExpr: each rule starts where the one before
\* it left this.state
parsePrimaryExpr(st, opts) ==
  LET r1 == Call("parseFunction", <<st>>)
      r2 == Call("parseObjectLiteral", <<r1.st, opts>>)
      r3 == Call("parseFunctionCall", <<r2.st>>)
      r4 == Call("parseIfExpression", <<r3.st, opts>>)
      r5 == Call("parseAnyLoopExpression", <<r4.st, opts>>)
      r6 == Call("parseAssign", <<r5.st>>)
      r7 == Call("parseNumber", <<r6.st>>)
      r8 == Call("parseStringLiteral", <<r7.st>>)
      r9 == Call("parseIdentifier", <<r8.st>>)
      r10 == Call("parseBuiltinPrimary", <<r9.st>>)
      r11 == Call("parseThisAccess", <<r10.st>>)
  IN IF r1.tag # "none" THEN r1
     ELSE IF r2.tag # "none" THEN r2
     ELSE IF r3.tag # "none" THEN r3
     ELSE IF r4.tag # "none" THEN r4
     ELSE IF r5.tag # "none" THEN r5
     ELSE IF r6.tag # "none" THEN r6
     ELSE IF r7.tag # "none" THEN r7
     ELSE IF r8.tag # "none" THEN r8
     ELSE IF r9.tag # "none" THEN r9
     ELSE IF r10.tag # "none" THEN r10
     ELSE IF r11.tag # "none" THEN r11
     ELSE Call("parseParentesiszedExpr", <<r11.st>>)

\* parseParentesiszedExpr without the rewind: a missing `)` is always fatal
parseParentesiszedExprFatal(st) ==
  IF peekToken(st).type # "(" THEN None(st)
  ELSE LET st1 == [Taken(st) EXCEPT !.inParens = @ + 1]
           expr == Call("parseExpression", <<st1, NoOpts>>)
           next == peekToken(expr.st)
       IN IF expr.tag = "err" THEN expr
          ELSE IF expr.tag = "none" THEN None(Restore(expr.st, st))
          ELSE IF next.type = ")"
          THEN Ok(Parens(expr.node), [Taken(expr.st) EXCEPT !.inParens = @ - 1])
          ELSE Err("Unexpected after expression, expected ')'", expr.st)

parseParentesiszedExpr(st) ==
  IF peekToken(st).type # "(" THEN None(st)
  ELSE LET st1 == [Taken(st) EXCEPT !.inParens = @ + 1]
           expr == Call("parseExpression", <<st1, NoOpts>>)
           next == peekToken(expr.st)
       IN IF expr.tag = "err" THEN expr
          ELSE IF expr.tag = "none" THEN None(Restore(expr.st, st))
          ELSE IF next.type = ")"
          THEN Ok(Parens(expr.node), [Taken(expr.st) EXCEPT !.inParens = @ - 1])
          ELSE IF expr.st.inFCall > 0 THEN None(Restore(expr.st, st))
          ELSE Err("Unexpected after expression, expected ')'", expr.st)

parseExpression(st, opts) == Call("parseForExpression2", <<st, opts>>)

parseReturn(st) ==
  IF peekToken(st).type # "RETURN" THEN None(st)
  ELSE LET expr == Call("parseExpression", <<Taken(st), NoOpts>>)
       IN IF expr.tag = "err" THEN expr
          ELSE Ok(ReturnStatement(expr.node), expr.st)

\* this.parseReturn() ?? this.parseExpression()
parseStatement(st) ==
  LET ret == Call("parseReturn", <<st>>)
  IN IF ret.tag # "none" THEN ret ELSE Call("parseExpression", <<ret.st, NoOpts>>)

\* only this.state after it is modelled: no caller uses the token it returns
parseOneOrMoreSemicolons(st) ==
  IF peekToken(st).type = ";" THEN Call("parseOneOrMoreSemicolons", <<Taken(st)>>) ELSE st

\* the inner for (;;) of the block loop: "ok" when it ends at a NEWLINE,
\* "break" at break blockLoop; the node is the list of expressions
StatementLoop(st, expressions) ==
  LET statement == Call("parseStatement", <<st>>)
      pushed == Append(expressions, statement.node)
      st1 == Call("parseOneOrMoreSemicolons", <<statement.st>>)
  IN IF statement.tag = "err" THEN statement
     ELSE IF statement.tag = "none"
     THEN [tag |-> "break", node |-> expressions, st |-> statement.st]
     ELSE IF peekNewline(st1) THEN Ok(pushed, st1)
     ELSE Call("StatementLoop", <<st1, pushed>>)

\* one iteration of blockLoop; blockIndent -1 is undefined; "return" is the
\* return of the empty block from inside the loop, "continue" the end of an
\* iteration that another follows: the block then carries blockIndent as its
\* indent
BlockLine(st, saved, blockIndent, block, rootBlock) ==
  LET lastIndent == currentIndentLevel(saved)
      lineStartPos == st.pos
      moved == moveToNextLine(st, TRUE)
      indent == moved.node
      first == blockIndent = -1
      st1 == IF first
             THEN [moved.st EXCEPT !.indentStack = Append(@, indent)]
             ELSE moved.st
      block1 == IF first THEN [block EXCEPT !.indent = indent] ELSE block
      statements == Call("StatementLoop", <<st1, block1.expressions>>)
      block2 == [block1 EXCEPT !.expressions = statements.node]
      separator == peekToken(statements.st)
  IN IF moved.tag = "err" THEN moved
     ELSE IF first /\ ~rootBlock /\ indent = lastIndent
     THEN [tag |-> "return", node |-> block, st |-> Restore(moved.st, saved)]
     ELSE IF ~first /\ indent < blockIndent
     THEN IF rootBlock /\ ~moved.st.eof
          THEN Err("Missing indentation in root block", moved.st)
          ELSE Ok(block, [moved.st EXCEPT !.pos = lineStartPos])
     ELSE IF ~first /\ indent > blockIndent
     THEN Err("unexpected indentation", moved.st)
     ELSE IF statements.tag = "err" THEN statements
     ELSE IF statements.tag = "break" THEN Ok(block2, statements.st)
     ELSE IF separator = NoTok THEN Ok(block2, statements.st)
     ELSE IF separator.type # "NEWLINE"
     THEN Err("Unexpected after expression", statements.st)
     ELSE [tag |-> "continue", node |-> block2, st |-> statements.st]

\* blockLoop
BlockLoop(st, saved, blockIndent, block, rootBlock) ==
  LET line == Call("BlockLine", <<st, saved, blockIndent, block, rootBlock>>)
  IN IF line.tag = "continue"
     THEN Call("BlockLoop", <<line.st, saved, line.node.indent, line.node, rootBlock>>)
     ELSE line

\* the loop of the same-line form of a block
InlineBlockLoop(st, block, inIfExpr) ==
  LET expr == Call("parseExpression", <<st, NoOpts>>)
      block1 == [block EXCEPT !.expressions = Append(@, expr.node)]
      peekedTok == peekToken(expr.st)
  IN IF expr.tag = "err" THEN expr
     ELSE IF expr.tag = "none"
     THEN IF expr.st.inParens # 0 THEN Ok(block, expr.st)
          ELSE Err("Expected an expression", expr.st)
     ELSE IF peekedTok.type \in {"NEWLINE", "undefined"} THEN Ok(block1, expr.st)
     ELSE IF peekedTok.type = ";" THEN Call("InlineBlockLoop", <<Taken(expr.st), block1, inIfExpr>>)
     ELSE IF peekedTok.type = ")"
     THEN IF expr.st.inParens # 0 THEN Ok(block1, expr.st)
          ELSE Err("Unexpected )", expr.st)
     ELSE IF peekedTok.type = "ELSE"
     THEN IF inIfExpr THEN Ok(block1, expr.st)
          ELSE Err("Unexpected 'else'", expr.st)
     ELSE Err("Unexpected", expr.st)

parseBlock(st, rootBlock, inIfExpr) ==
  IF rootBlock \/ peekToken(st).type = "NEWLINE"
  THEN LET r == Call("BlockLoop", <<st, st, -1, EmptyBlock, rootBlock>>)
       IN IF r.tag = "err" THEN r
          ELSE IF r.tag = "return" THEN Ok(r.node, r.st)
          ELSE IF ~rootBlock
          THEN Ok(r.node, [r.st EXCEPT !.indentStack =
                                  SubSeq(@, 1, Len(@) - 1)])
          ELSE r
  ELSE IF peekToken(st) # NoTok THEN Call("InlineBlockLoop", <<st, EmptyBlock, inIfExpr>>)
  ELSE Ok(EmptyBlock, st)

\* parse() returning the block without looking at what is left
LeftoverLoopSkipped(st) == Ok(Undef, st)

\* an iteration of the while of parse() that does not take the token
LeftoverStepStuck(st) ==
  IF peekToken(st) # NoTok
  THEN IF peekToken(st).type # "NEWLINE"
       THEN Err("found leftover tokens", Taken(st))
       ELSE [tag |-> "continue", node |-> Undef, st |-> st]
  ELSE Ok(Undef, st)

\* one iteration of the while (this.peekToken()) of parse(); "continue" when
\* another follows
LeftoverStep(st) ==
  IF peekToken(st) # NoTok
  THEN IF peekToken(st).type # "NEWLINE"
       THEN Err("found leftover tokens", Taken(st))
       ELSE [tag |-> "continue", node |-> Undef, st |-> Taken(st)]
  ELSE Ok(Undef, st)

\* the while (this.peekToken()) of parse()
LeftoverLoop(st) ==
  LET step == Call("LeftoverStep", <<st>>)
  IN IF step.tag = "continue" THEN Call("LeftoverLoop", <<step.st>>) ELSE step

\* parse(); rootEnd is this.state.pos when the root block has ended
parse(st) ==
  LET block == Call("parseBlock", <<st, TRUE, FALSE>>)
      left == Call("LeftoverLoop", <<block.st>>)
  IN IF block.tag = "err"
     THEN [tag |-> "err", node |-> block.node, st |-> block.st, rootEnd |-> -1]
     ELSE IF left.tag = "err"
     THEN [tag |-> "err", node |-> left.node, st |-> left.st, rootEnd |-> block.st.pos]
     ELSE [tag |-> "ok", node |-> block.node, st |-> left.st, rootEnd |-> block.st.pos]

\* this.<name>(...): the rule function, or the loop of one, that name names
Call(name, args) ==
  CASE name = "parseNumber" -> parseNumber(args[1])
    [] name = "parseIdentifier" -> parseIdentifier(args[1])
    [] name = "parseStringLiteral" -> parseStringLiteral(args[1])
    [] name = "parseBuiltinPrimary" -> parseBuiltinPrimary(args[1])
    [] name = "parseThisAccess" -> parseThisAccess(args[1])
    [] name = "parseLeftHandValue" -> parseLeftHandValue(args[1])
    [] name = "parseObjectKey" -> parseObjectKey(args[1])
    [] name = "skipNewline" -> skipNewline(args[1])
    [] name = "parseFunctionCallArgument" -> parseFunctionCallArgument(args[1], args[2])
    [] name = "ImplicitArgsLoop" -> ImplicitArgsLoop(args[1], args[2], args[3], args[4], args[5])
    [] name = "parseImplicitFunctionCallArguments" -> parseImplicitFunctionCallArguments(args[1])
    [] name = "ParenArgsLoop" -> ParenArgsLoop(args[1], args[2])
    [] name = "ParenArgs" -> ParenArgs(args[1])
    [] name = "FunctionCallLoop" -> FunctionCallLoop(args[1], args[2], args[3])
    [] name = "parseFunctionCall" -> parseFunctionCall(args[1])
    [] name = "parseForExpression2" -> parseForExpression2(args[1], args[2])
    [] name = "BinaryLoop" -> BinaryLoop(args[1], args[2], args[3])
    [] name = "parseBinaryExpr" -> parseBinaryExpr(args[1], args[2])
    [] name = "optionalThen" -> optionalThen(args[1])
    [] name = "parseLoopExpression" -> parseLoopExpression(args[1])
    [] name = "parseUntilExpression" -> parseUntilExpression(args[1])
    [] name = "parseForExpression" -> parseForExpression(args[1], args[2], args[3])
    [] name = "parseAnyLoopExpression" -> parseAnyLoopExpression(args[1], args[2])
    [] name = "elsePartOf" -> elsePartOf(args[1])
    [] name = "parseIfExpression" -> parseIfExpression(args[1], args[2])
    [] name = "parseAssign" -> parseAssign(args[1])
    [] name = "ObjectLoop" -> ObjectLoop(args[1], args[2], args[3], args[4], args[5], args[6], args[7], args[8])
    [] name = "parseObjectLiteral" -> parseObjectLiteral(args[1], args[2])
    [] name = "parseFunctionParam" -> parseFunctionParam(args[1])
    [] name = "FunctionParamsLoop" -> FunctionParamsLoop(args[1], args[2], args[3])
    [] name = "FunctionParams" -> FunctionParams(args[1], args[2])
    [] name = "parseFunction" -> parseFunction(args[1])
    [] name = "parseUnaryExpr" -> parseUnaryExpr(args[1], args[2])
    [] name = "parsePrimaryExpr" -> parsePrimaryExpr(args[1], args[2])
    [] name = "parseParentesiszedExpr" -> parseParentesiszedExpr(args[1])
    [] name = "parseExpression" -> parseExpression(args[1], args[2])
    [] name = "parseReturn" -> parseReturn(args[1])
    [] name = "parseStatement" -> parseStatement(args[1])
    [] name = "parseOneOrMoreSemicolons" -> parseOneOrMoreSemicolons(args[1])
    [] name = "StatementLoop" -> StatementLoop(args[1], args[2])
    [] name = "BlockLine" -> BlockLine(args[1], args[2], args[3], args[4], args[5])
    [] name = "BlockLoop" -> BlockLoop(args[1], args[2], args[3], args[4], args[5])
    [] name = "InlineBlockLoop" -> InlineBlockLoop(args[1], args[2], args[3])
    [] name = "parseBlock" -> parseBlock(args[1], args[2], args[3])
    [] name = "LeftoverStep" -> LeftoverStep(args[1])
    [] name = "LeftoverLoop" -> LeftoverLoop(args[1])
    [] name = "parse" -> parse(args[1])

\* reset(tokens): the ParserState it builds
parserReset == [pos |-> 0, inFCall |-> 0, inParens |-> 0, indentStack |-> <<>>,
                eof |-> FALSE]

(***************************************************************************)
(* The source strings the scanner is run on: every string of at most       *)
(* MaxScanLen characters over an alphabet that reaches each scanner rule.  *)
(***************************************************************************)
ScanAlphabet == {"a", "1", "+", "\n", "\"", "\\", "#", " ", "?"}

RECURSIVE StringsUpTo(_, _)
StringsUpTo(alphabet, n) ==
  IF n = 0 THEN {<<>>}
  ELSE LET shorter == StringsUpTo(alphabet, n - 1)
       IN shorter \cup {Append(s, c) : s \in {t \in shorter : Len(t) = n - 1},
                                      c \in alphabet}

\* words that begin with an alphabetic literal of the common table
WordInputs ==
  {<<"r", "e", "t", "u", "r", "n", "i", "n", "g">>, <<"i", "n", "d", "e", "x">>,
   <<"f", "o", "r", "m", "a", "t">>, <<"i", "s", "l", "a", "n", "d">>,
   <<"i", "s", "_">>}

\* each literal of the common table, alone
LiteralInputs == {commonTokens[k][1] : k \in 1..Len(commonTokens)}

\* string literals in either quote: closed, cut by the end of the input or by
\* a newline, with an escaped quote or the other quote inside
QuoteBodies(q) ==
  {<<>>, <<"a">>, <<"\\", q>>, <<"a", "\\">>} \cup {<<o>> : o \in {"\"", "'"} \ {q}}

QuoteEnds(q) == {<<>>, <<q>>, <<"\n">>, <<"\n", q>>, <<q, "a">>}

QuoteInputs ==
  UNION {{<<q>> \o body \o end : body \in QuoteBodies(q), end \in QuoteEnds(q)} :
           q \in {"\"", "'"}}

ScanInputs ==
  StringsUpTo(ScanAlphabet, MaxScanLen) \cup WordInputs \cup LiteralInputs \cup QuoteInputs

(***************************************************************************)
(* The token sequences the parser is run on.  A source is written as the   *)
(* sequence of its lexemes; Lexemes gives each the token type that the     *)
(* scanner's table, NUMBER, WHITESPACE or IDENTIFIER rule gives it.        *)
(***************************************************************************)
RECURSIVE Blank(_)
Blank(n) == IF n = 1 THEN " " ELSE " " \o Blank(n - 1)

Spaces == {Blank(n) : n \in 1..MaxIndent}

NumberLexemes == {"1", "2", "3", "4", "20", "50221"}

StringLexemes == {"'hello'"}

RECURSIVE CommonTypeFrom(_, _)
CommonTypeFrom(val, k) ==
  IF k > Len(commonTokens) THEN "IDENTIFIER"
  ELSE IF Join(commonTokens[k][1]) = val THEN commonTokens[k][2]
  ELSE CommonTypeFrom(val, k + 1)

Lexeme(val) ==
  Token(IF val \in Spaces THEN "WHITESPACE"
        ELSE IF val \in NumberLexemes THEN "NUMBER"
        ELSE IF val \in StringLexemes THEN "STRING"
        ELSE CommonTypeFrom(val, 1),
        val, Len(val))

Lexemes(vals) == [k \in 1..Len(vals) |-> Lexeme(vals[k])]

\* the lexemes with a blank between each two
RECURSIVE Spaced(_)
Spaced(vals) ==
  IF Len(vals) <= 1 THEN vals
  ELSE <<Head(vals), " ">> \o Spaced(Tail(vals))

\* the binary operators operatorPriority defines a priority for
PriorityOps == {"if", "unless", "is", "isnt", "==", "!=", ">=", "<=", ">", "<",
                "+", "-", "*", "/"}

\* one operator of each priority, for the longer chains
ChainOps == {"if", "==", "+", "*"}

\* an operand: a literal, a name, or a parenthesized binary expression
Operands == {<<"a">>, <<"1">>, <<"(", "x", " ", "+", " ", "y", ")">>}

\* A op1 B op2 c
PairInputs ==
  {A \o <<" ", op1, " ">> \o B \o <<" ", op2, " ", "c">> :
     A \in Operands, B \in Operands, op1 \in PriorityOps, op2 \in PriorityOps}

\* the operands of a chain, in order
ChainNames == <<"a", "b", "c", "d", "e", "f">>

RECURSIVE ChainsOf(_)
ChainsOf(n) ==
  IF n = 0 THEN {<<"a">>}
  ELSE {chain \o <<" ", op, " ", ChainNames[n + 1]>> :
          chain \in ChainsOf(n - 1), op \in ChainOps}

\* chains of 3..MaxChain operators without parentheses
ChainInputs == UNION {ChainsOf(n) : n \in 3..MaxChain}

\* a statement and what may be left after it
LeftoverInputs ==
  {s \o t : s \in {<<"a">>, <<"1">>, <<"  ", "a">>, <<"a", " ", "+", " ", "b">>},
            t \in {<<>>, <<"\n">>, <<"\n", "\n">>, <<" ", ")">>, <<")">>,
                   <<"\n", ")">>, <<",">>, <<" ", "then">>, <<"\n", "  ">>,
                   <<"}">>, <<" ", "else", " ", "b">>, <<"\n", "b", ":">>}}

\* what an implicit call may have as its target, and numeric literals
CallTargets == {<<"foo">>, <<"@", "foo">>, <<"(", "foo", ")">>, <<"(", "1", ")">>}

NumberTargets == {<<"1">>, <<"20">>}

\* T sN and T s N
SignInputs ==
  {T \o <<" ", s>> \o sp \o <<N>> :
     T \in CallTargets \cup NumberTargets, s \in {"+", "-"},
     sp \in {<<>>, <<" ">>}, N \in NumberLexemes}

\* the argument lists of an implicit call, of 1..MaxArgs arguments
ArgNames == <<"x", "y", "z", "w", "v">>

RECURSIVE ArgsOf(_)
ArgsOf(n) ==
  IF n = 1 THEN <<ArgNames[1]>> ELSE ArgsOf(n - 1) \o <<",", " ", ArgNames[n]>>

\* what may follow the last argument
Postfixes == {<<"if", " ", "c">>, <<"unless", " ", "c">>,
              <<"for", " ", "x", " ", "in", " ", "arr">>,
              <<"for", " ", "k", ",", "v", " ", "of", " ", "obj">>}

\* foo x, y POSTFIX
PostfixInputs ==
  {<<callee, " ">> \o ArgsOf(n) \o <<" ">> \o postfix :
     callee \in {"foo", "bar"}, n \in 1..MaxArgs, postfix \in Postfixes}

\* binary operators that operatorPriority has no entry for
UndefinedOps == {"|", "^", "in", "of"}

\* one such operator alone, and next to another operator in a chain
UndefinedOpInputs ==
  {<<"a", " ", op, " ", "b">> : op \in UndefinedOps}
    \cup {<<"a", " ", op1, " ", "b", " ", op2, " ", "c">> :
             op1 \in UndefinedOps, op2 \in ChainOps \cup UndefinedOps}
    \cup {<<"a", " ", op1, " ", "b", " ", op2, " ", "c">> :
             op1 \in ChainOps, op2 \in UndefinedOps}

\* an expression behind a `(`, and what follows it: the `)`, nothing, a `;`,
\* or the `)` and an argument list
ParenHeads ==
  {<<"(", "foo", " ", "2", ",", " ", "3", ",", " ", "4">>, <<"(", "foo">>, <<"(", "foo", " ", "2">>,
   <<"(", "a", " ", "+", " ", "b">>, <<"(", "(", "foo", " ", "2", ")">>,
   <<"(", "(", "foo", ")", " ", "2">>, <<"f", " ", "(", "foo", " ", "2">>}

ParenTails ==
  {<<")">>, <<>>, <<";">>, <<",">>, <<")", "(", "2", ")">>, <<")", " ", "2">>, <<")", " ", "(", "2", ")">>}

ParenInputs == {head \o tail : head \in ParenHeads, tail \in ParenTails}

ExprInputs ==
  PairInputs \cup ChainInputs \cup SignInputs \cup PostfixInputs \cup UndefinedOpInputs
    \cup ParenInputs

\* the indentation of a line: n blanks in one WHITESPACE token
Indent(n) == IF n = 0 THEN <<>> ELSE <<Blank(n)>>

\* a run of n semicolons
RECURSIVE Semicolons(_)
Semicolons(n) == IF n = 0 THEN <<>> ELSE <<";">> \o Semicolons(n - 1)

\* a literal and, on the same line with no separator, another statement
JuxtaposedInputs ==
  {head \o <<first, " ">> \o second :
     head \in {<<>>, <<"foo", " ", "=", " ", "->", "\n", "  ">>},
     first \in NumberLexemes,
     second \in {<<"2">>, <<"b">>, <<"(", "b", ")">>, <<"b", " ", "+", " ", "1">>}}

\* what opens a block: nothing (the root block), a function or an if, with
\* the block on the next line or on the same line
BlockHeads(n) ==
  {Indent(n - 1),
   <<"foo", " ", "=", " ", "->", "\n">> \o Indent(n),
   <<"foo", " ", "=", " ", "->", " ">>,
   <<"if", " ", "c", "\n">> \o Indent(n),
   <<"if", " ", "c", " ", "then", " ">>}

\* a block that begins with semicolons
LeadingSemicolonInputs ==
  {head \o Semicolons(k) \o <<"a", "(", ")">> :
     head \in UNION {BlockHeads(n) : n \in 1..MaxIndent}, k \in 1..MaxSemicolons}

\* a block with a run of semicolons after its first statement, and after
\* its last
SemicolonInputs ==
  {head \o <<"a">> \o Semicolons(k) \o more \o Semicolons(l) :
     head \in UNION {BlockHeads(n) : n \in 1..MaxIndent},
     k \in 1..MaxSemicolons, l \in 0..MaxSemicolons,
     more \in {<<"b">>, <<" ", "b">>}}
  \cup {head \o <<"a">> \o Semicolons(k) :
          head \in UNION {BlockHeads(n) : n \in 1..MaxIndent},
          k \in 1..MaxSemicolons}

\* a statement and a second line, each with its own indentation, in the
\* root block or in the body of a function
IndentInputs ==
  {head \o Indent(n) \o first \o <<"\n">> \o Indent(m) \o <<second>> :
     head \in {<<>>, <<"f", " ", "=", " ", "->", "\n">>},
     n \in 0..MaxIndent, m \in 0..MaxIndent,
     first \in {<<"foo">>, <<"1">>, <<"a", " ", "+", " ", "b">>},
     second \in {"20", "b"}}

\* three lines, each with its own indentation: the first opens the root
\* block at an indent above 0, the second may open or continue a block
DedentInputs ==
  {Indent(k) \o first \o <<"\n">> \o Indent(j) \o mid \o <<"\n">> \o Indent(m) \o <<"c">> :
     k \in 1..MaxIndent, j \in 0..MaxIndent, m \in 0..MaxIndent,
     first \in {<<"a">>, <<"f", " ", "=", " ", "->">>, <<"foo", " ", "x", ",">>,
                <<"if", " ", "c">>},
     mid \in {<<"b">>, <<"y", ":", " ", "1">>}}

\* the keyword and condition of an if or of a loop
BodyHeads == {<<"if", " ", "c">>, <<"unless", " ", "c">>, <<"loop">>,
              <<"until", " ", "c">>, <<"for", " ", "x", " ", "in", " ", "arr">>}

\* what follows the head: no body, a body on the same line or on the next
BodyTails ==
  {<<>>, <<" ", "then">>, <<" ", "then", " ", "b">>, <<" ", "b">>,
   <<" ", "then", " ", "b", " ", "else", " ", "d">>,
   <<" ", "then", " ", "b", " ", "else">>}
  \cup {<<"\n">> \o Indent(j) \o <<"b">> : j \in 0..MaxIndent}
  \cup {<<" ", "then", "\n">> \o Indent(j) \o <<"b">> : j \in 0..1}

\* where the if or the loop stands: a statement, after a call (an implicit
\* argument is tried), the value of an assignment, in parentheses
BodyContexts ==
  {<<<<>>, <<>>>>, <<<<"v", "(", ")", " ">>, <<>>>>, <<<<"foo", " ">>, <<>>>>,
   <<<<"a", " ", "=", " ">>, <<>>>>, <<<<"(">>, <<")">>>>}

BodyInputs ==
  {ctx[1] \o head \o tail \o ctx[2] :
     ctx \in BodyContexts, head \in BodyHeads, tail \in BodyTails}

\* object literals: two pairs `b: 1` and `c: 2` in a statement, an assignment
\* or a call argument of a root block at column 0 or 2; the literal is inline,
\* starts on its own line or is in braces, and the pairs are separated by a
\* space, a comma, a newline, a comma and a newline, or a comma on its own line
ObjectContexts == {<<>>, <<"a", " ", "=">>, <<"foo">>}

ObjectFrames ==
  {<<<<" ">>, <<>>>>, <<<<" ", "{">>, <<"}">>>>}
    \cup {<<<<"\n">> \o Indent(i), <<>>>> : i \in 0..MaxObjIndent}
    \cup {<<<<" ", "{">>, <<"\n">> \o Indent(e) \o <<"}">>>> : e \in 0..MaxObjIndent}
    \cup {<<<<" ", "{", "\n">> \o Indent(i), <<"}">>>> : i \in 0..MaxObjIndent}
    \cup {<<<<" ", "{", "\n">> \o Indent(i), <<"\n">> \o Indent(e) \o <<"}">>>> :
             i \in 0..MaxObjIndent, e \in 0..MaxObjIndent}

ObjectSeparators ==
  {<<" ">>, <<",", " ">>}
    \cup {<<"\n">> \o Indent(j) : j \in 0..MaxObjIndent}
    \cup {<<",", "\n">> \o Indent(j) : j \in 0..MaxObjIndent}
    \cup {<<"\n">> \o Indent(c) \o <<",", " ">> : c \in 0..MaxObjIndent}
    \cup {<<"\n">> \o Indent(c) \o <<",", "\n">> \o Indent(j) :
             c \in 0..MaxObjIndent, j \in 0..MaxObjIndent}

FirstPair == <<"b", ":", " ", "1">>

SecondPair == <<"c", ":", " ", "2">>

ObjectPairInputs ==
  {Indent(k) \o ctx \o frame[1] \o FirstPair \o sep \o SecondPair \o frame[2] :
     k \in {0, 2}, ctx \in ObjectContexts, frame \in ObjectFrames, sep \in ObjectSeparators}

\* a literal in braces with no pair at all
EmptyObjectInputs ==
  {ctx \o <<" ", "{">> \o inner \o <<"}">> :
     ctx \in ObjectContexts,
     inner \in {<<>>, <<" ">>} \cup {<<"\n">> \o Indent(e) : e \in 0..MaxObjIndent}}

\* a call whose only argument is a literal on the lines below it
CallObjectInputs ==
  {ctx \o <<"\n">> \o Indent(i) \o <<"hello", " ", ":", " ", "world", "\n">>
       \o Indent(j) \o <<"'hello'", ":", " ", "50221">> \o last :
     ctx \in {<<"foo">>, <<"a", " ", "=">>}, i \in 0..MaxObjIndent, j \in 0..MaxObjIndent,
     last \in {<<>>, <<"\n">>} \cup {<<"\n">> \o Indent(w) : w \in 1..MaxObjIndent}}

\* what may follow an unbracketed literal on the next line: lines that begin
\* with a key but are no pair, and lines that begin with no key at all
FollowingLines ==
  {<<"c", " ", "=", " ", "3">>, <<"hello", "(", ")">>, <<"3">>,
   <<"(", "x", ")">>, <<"->", " ", "x">>, <<"@", "x">>, <<"if", " ", "c", " ", "then", " ", "d">>}

\* `obj =` at column k, the pairs `a : 1` and `b : 2` on the lines below at
\* column i
FollowedHead(k, i) ==
  Indent(k) \o <<"obj", " ", "=", "\n">> \o Indent(i) \o <<"a", " ", ":", " ", "1", "\n">>
    \o Indent(i) \o <<"b", " ", ":", " ", "2">>

FollowedObjectInputs ==
  {FollowedHead(k, i) \o <<"\n">> \o Indent(j) \o line :
     k \in {0, 2}, i \in 0..MaxObjIndent, j \in 0..MaxObjIndent, line \in FollowingLines}

ObjectInputs ==
  ObjectPairInputs \cup EmptyObjectInputs \cup CallObjectInputs \cup FollowedObjectInputs

\* assignments whose value is an assignment, a name or a number
AssignTargets == {<<"a">>, <<"@", "a">>}

AssignOperators == {"=", "+="}

AssignInputs ==
  {t1 \o <<" ", op1, " ">> \o t2 \o <<" ", op2, " ">> \o rest :
     t1 \in AssignTargets, t2 \in {<<"b">>, <<"@", "b">>},
     op1 \in AssignOperators, op2 \in AssignOperators,
     rest \in {<<"1">>, <<"c", " ", "=", " ", "1">>, <<"c", " ", "+", " ", "1">>}}
    \cup {t1 \o <<" ", op1, " ">> \o rest :
             t1 \in AssignTargets, op1 \in AssignOperators,
             rest \in {<<"1">>, <<"b">>, <<"b", " ", "+", " ", "1">>}}

\* an implicit argument list that goes on over the following lines: `a 1,`
\* at column k, `2` at column i with or without a comma after it, `3` at
\* column j
ContinuationLines(k, i, sep, j) ==
  Indent(k) \o <<"a", " ", "1", ",", "\n">> \o Indent(i) \o <<"2">> \o sep
    \o Indent(j) \o <<"3">>

ContinuationInputs ==
  {ContinuationLines(k, i, sep, j) \o last :
     k \in {0, 2}, i \in 0..MaxIndent, sep \in {<<"\n">>, <<",", "\n">>},
     j \in 0..MaxIndent, last \in {<<>>, <<"\n">>}}

\* a function with a same-line body between a `(` and its `)`: in a
\* parenthesized expression, in a parenthesized argument list, as the default
\* value of a parameter
ParenContexts ==
  {<<<<"(">>, <<")">>>>, <<<<"foo", " ", "(">>, <<")">>>>, <<<<"foo", "(">>, <<")">>>>,
   <<<<"foo", "(", "1", ",", " ">>, <<")">>>>, <<<<"foo", "(">>, <<",", " ", "1", ")">>>>,
   <<<<"(", "x", " ", "=", " ">>, <<")", " ", "->">>>>,
   <<<<"foo", "(", "(">>, <<")", ")">>>>}

SameLineBodies ==
  {<<"->", " ", "a">>, <<"->", " ", "a", ";", " ", "b">>, <<"->">>,
   <<"(", "y", ")", " ", "->", " ", "a">>, <<"->", " ", "a", "(", ")">>,
   <<"if", " ", "c", " ", "then", " ", "d">>, <<"a">>}

ParenBodyInputs ==
  {ctx[1] \o body \o ctx[2] : ctx \in ParenContexts, body \in SameLineBodies}

BlockInputs == LeftoverInputs \cup JuxtaposedInputs \cup LeadingSemicolonInputs
                 \cup SemicolonInputs \cup IndentInputs \cup DedentInputs
                 \cup BodyInputs \cup AssignInputs \cup ContinuationInputs
                 \cup ParenBodyInputs

(***************************************************************************)
(* State machine                                                           *)
(***************************************************************************)
NoScan == [tag |-> "none", tokens |-> <<>>, msg |-> ""]
NoParse == [tag |-> "none", node |-> Undef, rootEnd |-> -1]
NewScanner == [contents |-> <<>>, pos |-> 0, chunk |-> <<>>]

Init ==
  /\ scanner = NewScanner
  /\ scanOut = NoScan
  /\ tokens = <<>>
  /\ state = parserReset
  /\ parseOut = NoParse
  /\ pc = "new"

\* scanner.reset(contents)
ScannerReset ==
  /\ pc = "new"
  /\ \E contents \in ScanInputs :
       scanner' = scannerReset(scanner, contents)
  /\ pc' = "scan"
  /\ UNCHANGED <<scanOut, tokens, state, parseOut>>

\* scanner.scan()
Scan ==
  /\ pc = "scan"
  /\ LET r == scan(scanner)
     IN /\ scanner' = r.scanner
        /\ scanOut' = [tag |-> r.tag, tokens |-> r.tokens, msg |-> r.msg]
  /\ pc' = "scanned"
  /\ UNCHANGED <<tokens, state, parseOut>>

NextScan == ScannerReset \/ Scan

SpecScan == Init /\ [][NextScan]_vars

(***************************************************************************)
(* Parser state machine: reset(tokens) and then parse().                   *)
(***************************************************************************)
\* parser.reset(tokens), on a token sequence of the given family
ParserReset(inputs) ==
  /\ pc = "new"
  /\ \E source \in inputs : tokens' = Lexemes(source)
  /\ state' = parserReset
  /\ pc' = "parse"
  /\ UNCHANGED <<scanner, scanOut, parseOut>>

\* parser.parse(): the Block it returns or the error it throws
Parse ==
  /\ pc = "parse"
  /\ \E r \in {Call("parse", <<state>>)} :
       /\ parseOut' = [tag |-> r.tag, node |-> r.node, rootEnd |-> r.rootEnd]
       /\ state' = r.st
  /\ pc' = "parsed"
  /\ UNCHANGED <<scanner, scanOut, tokens>>

\* expressions: operators, calls and their arguments
NextExpr == ParserReset(ExprInputs) \/ Parse

SpecExpr == Init /\ [][NextExpr]_vars

\* blocks: statements, separators and indentation
NextBlock == ParserReset(BlockInputs) \/ Parse

SpecBlock == Init /\ [][NextBlock]_vars

\* object literals: braces, commas and the columns of their lines
NextObject == ParserReset(ObjectInputs) \/ Parse

SpecObject == Init /\ [][NextObject]_vars

\* parse() by the iterations of its loops.  While the root block is being
\* read parseOut holds the block read so far; its indent is blockIndent.
\* One iteration of the blockLoop of the root block:
RootLine ==
  /\ pc = "parse"
  /\ \E r \in {Call("BlockLine",
                     <<state, state,
                       IF parseOut.node.kind = "Block" THEN parseOut.node.indent ELSE -1,
                       IF parseOut.node.kind = "Block" THEN parseOut.node ELSE EmptyBlock,
                       TRUE>>)} :
       /\ state' = r.st
       /\ parseOut' = [tag |-> IF r.tag = "err" THEN "err" ELSE "none",
                       node |-> r.node,
                       rootEnd |-> IF r.tag \in {"err", "continue"} THEN -1 ELSE r.st.pos]
       /\ pc' = IF r.tag = "err" THEN "parsed"
                ELSE IF r.tag = "continue" THEN "parse" ELSE "leftover"
  /\ UNCHANGED <<scanner, scanOut, tokens>>

\* one iteration of the while of parse(), and its return or throw
Leftover ==
  /\ pc = "leftover"
  /\ \E r \in {Call("LeftoverStep", <<state>>)} :
       /\ state' = r.st
       /\ parseOut' = [parseOut EXCEPT !.tag = IF r.tag = "continue" THEN "none" ELSE r.tag,
                                       !.node = IF r.tag = "err" THEN r.node ELSE @]
       /\ pc' = IF r.tag = "continue" THEN "leftover" ELSE "parsed"
  /\ UNCHANGED <<scanner, scanOut, tokens>>

\* inputs for each loop: what is left behind the root block, statements and
\* semicolons, bodies on the lines below, argument lists over several lines,
\* blocks in parentheses, object literals with a line below them
StepInputs ==
  LeftoverInputs \cup JuxtaposedInputs \cup SemicolonInputs \cup BodyInputs
    \cup ContinuationInputs \cup ParenBodyInputs \cup FollowedObjectInputs
    \cup EmptyObjectInputs

\* a call of parse() that has begun goes on until it returns or throws

NextSteps == ParserReset(StepInputs) \/ RootLine \/ Leftover

SpecSteps == Init /\ [][NextSteps]_vars /\ WF_vars(RootLine) /\ WF_vars(Leftover)


(***************************************************************************)
(* C1: whenever scan() returns, the values of the returned tokens,         *)
(* concatenated in order, are the source string, trivia included, and      *)
(* every token's consumed is the length of its val.                        *)
(***************************************************************************)
RECURSIVE ConcatVals(_)
ConcatVals(toks) ==
  IF toks = <<>> THEN "" ELSE Head(toks).val \o ConcatVals(Tail(toks))

C1_ScanKeepsSource ==
  (pc = "scanned" /\ scanOut.tag = "ok") =>
    /\ ConcatVals(scanOut.tokens) = Join(scanner.contents)
    /\ \A k \in 1..Len(scanOut.tokens) :
         scanOut.tokens[k].consumed = Len(scanOut.tokens[k].val)

C1_Witness ==
  /\ pc = "scanned"
  /\ scanOut.tag = "ok"
  /\ scanner.contents = <<"a", " ", "#", "1">>
  /\ Len(scanOut.tokens) = 3
  /\ scanOut.tokens[2].type = "WHITESPACE"
  /\ scanOut.tokens[3].type = "COMMENT"

(***************************************************************************)
(* C2: parse() returns a Block only if every token left once the root      *)
(* block has ended is WHITESPACE, COMMENT or NEWLINE; when any other token *)
(* is left, parse() raises instead of returning the tree.                  *)
(***************************************************************************)
C2_LeftoverTokensRaise ==
  (pc = "parsed" /\ parseOut.rootEnd # -1) =>
    /\ parseOut.tag = "ok" <=>
         \A k \in (parseOut.rootEnd + 1)..Len(tokens) :
            tokens[k].type \in {"WHITESPACE", "COMMENT", "NEWLINE"}
    /\ parseOut.tag = "ok" => parseOut.node.kind = "Block"

C2_Witness ==
  /\ pc = "parsed"
  /\ parseOut.rootEnd > 0
  /\ parseOut.rootEnd < Len(tokens)
  /\ tokens[Len(tokens)].type = ")"
  /\ parseOut.tag = "err"
  /\ parseOut.node.msg = "found leftover tokens"

(***************************************************************************)
(* C3: with op1 and op2 of different defined priorities, A op1 B op2 c     *)
(* parses to A op1 (B op2 c) when op1 has the lower priority and to        *)
(* (A op1 B) op2 c when it has the higher; a parenthesized operand stays   *)
(* one Parens node.                                                        *)
(***************************************************************************)
Atom(val) == IF val \in NumberLexemes THEN Number(val) ELSE Identifier(val)

\* the node of an operand of Operands
OperandNode(o) ==
  IF Len(o) = 1 THEN Atom(o[1])
  ELSE Parens(BinaryExpression(Atom(o[2]), Lexeme(o[4]), Atom(o[6])))

C3_Expected(A, op1, B, op2) ==
  IF operatorPriority(op1) < operatorPriority(op2)
  THEN BinaryExpression(OperandNode(A), Lexeme(op1),
         BinaryExpression(OperandNode(B), Lexeme(op2), Identifier("c")))
  ELSE BinaryExpression(
         BinaryExpression(OperandNode(A), Lexeme(op1), OperandNode(B)),
         Lexeme(op2), Identifier("c"))

\* the tokens are A op1 B op2 c for operators of different priorities
C3_Case(A, B) ==
  /\ Len(tokens) = Len(A) + Len(B) + 7
  /\ LET op1 == tokens[Len(A) + 2].val
         op2 == tokens[Len(A) + Len(B) + 5].val
     IN /\ op1 \in PriorityOps
        /\ op2 \in PriorityOps
        /\ operatorPriority(op1) # operatorPriority(op2)
        /\ tokens = Lexemes(A \o <<" ", op1, " ">> \o B \o <<" ", op2, " ", "c">>)

C4_IsChain(n) ==
  /\ Len(tokens) = 4 * n + 1
  /\ \A i \in 0..n : tokens[4 * i + 1].type = "IDENTIFIER"
  /\ \A i \in 1..n : /\ isBinary(tokens[4 * i - 1])
                     /\ operatorPriority(tokens[4 * i - 1].val) # -1

RECURSIVE C4_BindsTighter(_)
C4_BindsTighter(node) ==
  IF node.kind # "BinaryExpression" THEN TRUE
  ELSE /\ \A operand \in {node.left, node.right} :
            operand.kind = "BinaryExpression" =>
              operatorPriority(operand.operator.val) >=
                operatorPriority(node.operator.val)
       /\ C4_BindsTighter(node.left)
       /\ C4_BindsTighter(node.right)

C4_ChainsBindTighter ==
  pc = "parsed" =>
    \A n \in 3..MaxChain :
      C4_IsChain(n) =>
        /\ parseOut.tag = "ok"
        /\ Len(parseOut.node.expressions) = 1
        /\ C4_BindsTighter(parseOut.node.expressions[1])

(***************************************************************************)
(* C5: for a sign s and a number N, T sN is the call T(sN) and T s N is    *)
(* the binary expression T s N when T is an IDENTIFIER, an @name access or *)
(* a parenthesized expression; when T is a numeric literal both forms are  *)
(* the binary expression T s N.                                            *)
(***************************************************************************)
\* the node of a target of CallTargets or NumberTargets
TargetNode(T) ==
  IF Len(T) = 1 THEN Atom(T[1])
  ELSE IF Len(T) = 2
  THEN PropertyAccess(ThisExpression(Lexeme(T[1])), Identifier(T[2]))
  ELSE Parens(Atom(T[2]))

C5_Expected(T, s, spaced, N) ==
  IF T \in CallTargets /\ ~spaced
  THEN FunctionCall(TargetNode(T), <<PrefixUnaryExpression(Lexeme(s), Number(N))>>)
  ELSE BinaryExpression(TargetNode(T), Lexeme(s), Number(N))

C5_SignAfterTarget ==
  pc = "parsed" =>
    \A T \in CallTargets \cup NumberTargets, spaced \in BOOLEAN :
      LET n == Len(T) + 3 + (IF spaced THEN 1 ELSE 0)
      IN (/\ Len(tokens) = n
          /\ tokens[Len(T) + 2].val \in {"+", "-"}
          /\ tokens[n].type = "NUMBER"
          /\ tokens = Lexemes(T \o <<" ", tokens[Len(T) + 2].val>>
                               \o (IF spaced THEN <<" ">> ELSE <<>>)
                               \o <<tokens[n].val>>))
         => /\ parseOut.tag = "ok"
            /\ parseOut.node.expressions =
                 <<C5_Expected(T, tokens[Len(T) + 2].val, spaced, tokens[n].val)>>

C5_Witness ==
  /\ pc = "parsed"
  /\ tokens = Lexemes(<<"@", "foo", " ", "-", "20">>)
  /\ parseOut.tag = "ok"
  /\ parseOut.node.expressions[1].kind = "FunctionCall"
  /\ parseOut.node.expressions[1].args[1].kind = "PrefixUnaryExpression"

(***************************************************************************)
(* C6: a postfix if/unless or a postfix for after the arguments of an      *)
(* implicit call is not taken into the last argument: foo x, y if c is the *)
(* BinaryExpression of the call foo(x, y), IF and c, and foo x for x in    *)
(* arr is the ForExpression2 of the call foo(x) and the loop.              *)
(***************************************************************************)
\* the arguments x, y, ... of ArgsOf(n)
ArgNodes(n) == [i \in 1..n |-> Identifier(ArgNames[i])]

C6_Expected(callee, n, postfix) ==
  LET call == FunctionCall(Identifier(callee), ArgNodes(n))
  IN IF postfix[1] \in {"if", "unless"}
     THEN BinaryExpression(call, Lexeme(postfix[1]), Identifier(postfix[3]))
     ELSE IF Len(postfix) = 7
     THEN ForExpression2(call,
            ForExpression(Lexeme("for"), Identifier(postfix[3]), Undef,
                          Lexeme(postfix[5]), Identifier(postfix[7]), Undef))
     ELSE ForExpression2(call,
            ForExpression(Lexeme("for"), Identifier(postfix[3]),
                          Identifier(postfix[5]), Lexeme(postfix[7]),
                          Identifier(postfix[9]), Undef))

C6_PostfixAfterArguments ==
  pc = "parsed" =>
    \A n \in 1..MaxArgs, postfix \in Postfixes :
      (/\ Len(tokens) = 3 * n + 1 + Len(postfix)
       /\ tokens = Lexemes(<<tokens[1].val, " ">> \o ArgsOf(n) \o <<" ">> \o postfix))
      => /\ parseOut.tag = "ok"
         /\ parseOut.node.expressions = <<C6_Expected(tokens[1].val, n, postfix)>>

C6_Witness ==
  /\ pc = "parsed"
  /\ tokens = Lexemes(<<"foo", " ", "x", ",", " ", "y", " ", "if", " ", "c">>)
  /\ parseOut.tag = "ok"
  /\ parseOut.node.expressions[1].kind = "BinaryExpression"
  /\ parseOut.node.expressions[1].left.kind = "FunctionCall"
  /\ Len(parseOut.node.expressions[1].left.args) = 2

\* the source the tokens were made from, lexeme by lexeme
Source == [k \in 1..Len(tokens) |-> tokens[k].val]

(***************************************************************************)
(* C7: a complete statement followed on the same line, with no `;`, by a   *)
(* token that starts another statement (as in `1 2`) makes parse() raise.  *)
(***************************************************************************)
C7_JuxtaposedStatementsRaise ==
  (pc = "parsed" /\ Source \in JuxtaposedInputs) => parseOut.tag = "err"

(***************************************************************************)
(* C8: a `;` before the first statement of a block makes parse() raise,    *)
(* as for `foo = ->`, a newline and the indented line `;a()`.              *)
(***************************************************************************)
C8_LeadingSemicolonRaises ==
  (pc = "parsed" /\ Source \in LeadingSemicolonInputs) => parseOut.tag = "err"

(***************************************************************************)
(* C9: in the root block, in an indented block and in a same-line body     *)
(* after `->` or `then`, a run of `;` between two statements or after the  *)
(* last statement of a line is one separator and adds no statement.        *)
(***************************************************************************)
\* the block the statements of a source of SemicolonInputs go to
C9_Block ==
  LET first == parseOut.node.expressions[1]
  IN IF first.kind = "Assign" THEN first.value.body
     ELSE IF first.kind = "IfExpression" THEN first.block
     ELSE parseOut.node

C9_SemicolonRunsSeparate ==
  (pc = "parsed" /\ Source \in SemicolonInputs) =>
    /\ parseOut.tag = "ok"
    /\ C9_Block.expressions =
         (IF "b" \in {Source[k] : k \in 1..Len(Source)}
          THEN <<Identifier("a"), Identifier("b")>> ELSE <<Identifier("a")>>)

(***************************************************************************)
(* C10: after a complete statement, a line indented deeper than the block  *)
(* the statement is in makes parse() raise; the same line at the block's   *)
(* indent is the next statement of that block.                             *)
(***************************************************************************)
C10_Node(first) ==
  IF Len(first) = 1 THEN Atom(first[1])
  ELSE BinaryExpression(Atom(first[1]), Lexeme(first[3]), Atom(first[5]))

\* the statements of the block the first statement is in: the root block,
\* after the function when that has no body, or the body of the function
C10_Statements(head, n) ==
  IF head = <<>> THEN parseOut.node.expressions
  ELSE IF n = 0 THEN Tail(parseOut.node.expressions)
  ELSE parseOut.node.expressions[1].value.body.expressions

C10_DeeperLineRaises ==
  pc = "parsed" =>
    \A head \in {<<>>, <<"f", " ", "=", " ", "->", "\n">>},
       n \in 0..MaxIndent, m \in 0..MaxIndent,
       first \in {<<"foo">>, <<"1">>, <<"a", " ", "+", " ", "b">>},
       second \in {"20", "b"} :
      Source = head \o Indent(n) \o first \o <<"\n">> \o Indent(m) \o <<second>>
      => /\ m > n => parseOut.tag = "err"
         /\ m = n => /\ parseOut.tag = "ok"
                     /\ C10_Statements(head, n) = <<C10_Node(first), Atom(second)>>

C10_Witness ==
  /\ pc = "parsed"
  /\ Source = <<"foo", "\n", "  ", "20">>
  /\ parseOut.tag = "err"
  /\ parseOut.node.msg = "unexpected indentation"

(***************************************************************************)
(* C11: when a line that carries a token is indented less than the first   *)
(* line that carries one, parse() does not succeed.                        *)
(***************************************************************************)
\* the 1-based indexes of the tokens that begin a line
C11_LineStarts ==
  {p \in 1..Len(tokens) : p = 1 \/ tokens[p - 1].type = "NEWLINE"}

\* the line that begins at p carries a token that is not trivia
C11_Significant(p) ==
  /\ TokenAt(SkipTrivia(p - 1)) # NoTok
  /\ TokenAt(SkipTrivia(p - 1)).type # "NEWLINE"

\* the column of the first token of the line that begins at p
C11_Column(p) == IF tokens[p].type = "WHITESPACE" THEN Len(tokens[p].val) ELSE 0

\* a line after the first significant one is significant and indented less
C11_DeIndent ==
  \E p \in C11_LineStarts, q \in C11_LineStarts :
    /\ C11_Significant(p)
    /\ \A r \in C11_LineStarts : r < p => ~C11_Significant(r)
    /\ q > p
    /\ C11_Significant(q)
    /\ C11_Column(q) < C11_Column(p)

C11_RootDeIndentRaises ==
  (pc = "parsed" /\ C11_DeIndent) => parseOut.tag = "err"

\* the nodes a node holds, in order
Children(node) ==
  CASE node.kind = "Block" -> node.expressions
    [] node.kind = "IfExpression" -> <<node.condition, node.block, node.elsePart>>
    [] node.kind = "LoopExpression" -> <<node.condition, node.block>>
    [] node.kind = "ForExpression" ->
         <<node.iter, node.iter2, node.target, node.block>>
    [] node.kind = "ForExpression2" -> <<node.expr, node.loop>>
    [] node.kind = "BinaryExpression" -> <<node.left, node.right>>
    [] node.kind \in {"PrefixUnaryExpression", "PostfixUnaryExpression",
                      "SplatExpression", "ReturnStatement"} -> <<node.expr>>
    [] node.kind = "Parens" -> <<node.contents>>
    [] node.kind = "PropertyAccess" -> <<node.target, node.access>>
    [] node.kind = "FunctionCall" -> <<node.target>> \o node.args
    [] node.kind = "Assign" -> <<node.target, node.value>>
    [] node.kind = "ObjectLiteral" ->
         [i \in 1..Len(node.properties) |-> node.properties[i].propertyId]
           \o [i \in 1..Len(node.properties) |-> node.properties[i].value]
    [] node.kind = "Function" ->
         [i \in 1..Len(node.args) |-> node.args[i].param]
           \o [i \in 1..Len(node.args) |-> node.args[i].defaultValue]
           \o <<node.body>>
    [] OTHER -> <<>>

(***************************************************************************)
(* C12: no IfExpression, LoopExpression or ForExpression with a block has  *)
(* a block of zero statements; an if, unless, loop, until or for whose     *)
(* body is empty makes parse() raise 'Empty block ...', except that an     *)
(* if/unless tried as the argument of an implicit call is given up and     *)
(* becomes the postfix operator: v() if v is BinaryExpression(v(), IF, v). *)
(***************************************************************************)
RECURSIVE C12_NoEmptyBody(_)
C12_NoEmptyBody(node) ==
  /\ node.kind \in {"IfExpression", "LoopExpression"} =>
       Len(node.block.expressions) > 0
  /\ (node.kind = "ForExpression" /\ node.block # Undef) =>
       Len(node.block.expressions) > 0
  /\ \A i \in 1..Len(Children(node)) : C12_NoEmptyBody(Children(node)[i])

\* after the head comes nothing, `then` and nothing, or the next line at
\* the indent of the head: the body is empty
C12_EmptyTails == {<<>>, <<" ", "then">>, <<"\n", "b">>}

C12_EmptyBlockMessages ==
  {"Empty block in an 'if'", "Empty block in an 'unless'",
   "Empty block in a 'loop' expression", "Empty block in a 'until' expression",
   "Empty block in a 'for' expression"}

RECURSIVE C13_AllNonEmpty(_)
C13_AllNonEmpty(node) ==
  /\ node.kind = "ObjectLiteral" => Len(node.properties) >= 1
  /\ \A i \in 1..Len(Children(node)) : C13_AllNonEmpty(Children(node)[i])

C13_EmptyBraces ==
  \E k \in 1..Len(tokens) : \E m \in (k + 1)..Len(tokens) :
    /\ tokens[k].val = "{"
    /\ tokens[m].val = "}"
    /\ \A n \in (k + 1)..(m - 1) : tokens[n].type \in {"WHITESPACE", "NEWLINE"}

FirstProperty == [propertyId |-> Identifier("b"), value |-> Number("1")]

SecondProperty == [propertyId |-> Identifier("c"), value |-> Number("2")]

RECURSIVE HasLiteral(_, _)
\* the tree holds an ObjectLiteral with exactly these properties
HasLiteral(node, properties) ==
  \/ node = ObjectLiteral(properties)
  \/ \E i \in 1..Len(Children(node)) : HasLiteral(Children(node)[i], properties)

(***************************************************************************)
(* C14: in an unbracketed object literal that starts on the line of its    *)
(* context (`a = b: 1, c: 2`), a further pair is part of the literal only   *)
(* if a comma precedes it; without a comma the literal ends after the      *)
(* previous pair, whether the next pair is on the following line           *)
(* (`a = b : 1`, newline, `c : 2` is `a = {b: 1}` and `{c: 2}`) or on the   *)
(* same line.                                                              *)
(***************************************************************************)
C14_NoCommaSeparators == {<<" ">>} \cup {<<"\n">> \o Indent(j) : j \in 0..MaxObjIndent}

C14_Inline(k, ctx, sep) ==
  Source = Indent(k) \o ctx \o <<" ">> \o FirstPair \o sep \o SecondPair

C14_InlineNeedsComma ==
  pc = "parsed" =>
    \A k \in {0, 2} : \A ctx \in ObjectContexts :
      /\ \A sep \in C14_NoCommaSeparators :
           (C14_Inline(k, ctx, sep) /\ parseOut.tag = "ok") =>
             /\ HasLiteral(parseOut.node, <<FirstProperty>>)
             /\ ~HasLiteral(parseOut.node, <<FirstProperty, SecondProperty>>)
      /\ C14_Inline(k, <<"a", " ", "=">>, <<"\n">> \o Indent(k)) =>
           /\ parseOut.tag = "ok"
           /\ Len(parseOut.node.expressions) = 2
           /\ parseOut.node.expressions[1].kind = "Assign"
           /\ parseOut.node.expressions[1].value = ObjectLiteral(<<FirstProperty>>)
           /\ parseOut.node.expressions[2] = ObjectLiteral(<<SecondProperty>>)
      /\ C14_Inline(k, ctx, <<",", " ">>) =>
           /\ parseOut.tag = "ok"
           /\ HasLiteral(parseOut.node, <<FirstProperty, SecondProperty>>)

\* without the pair on the same line, the statement of C14 holds
C14_OnNextLine ==
  pc = "parsed" =>
    \A k \in {0, 2} : \A ctx \in ObjectContexts :
      \A sep \in C14_NoCommaSeparators \ {<<" ">>} :
        (C14_Inline(k, ctx, sep) /\ parseOut.tag = "ok") =>
          /\ HasLiteral(parseOut.node, <<FirstProperty>>)
          /\ ~HasLiteral(parseOut.node, <<FirstProperty, SecondProperty>>)

(***************************************************************************)
(* C15: in an object literal, after a key's value and a newline with no    *)
(* comma in between, the next key is accepted into the literal only if its *)
(* column equals the working indent exactly; a greater column is an        *)
(* 'unexpected indent' error and a smaller column is never accepted as a   *)
(* further key of the same literal (an error inside braces, the end of the *)
(* literal outside them).  A closing brace may sit at any column.          *)
(***************************************************************************)
C15_Contexts == {<<"a", " ", "=">>, <<"foo">>}

\* the literal opens with a brace and its first pair is on the next line, at
\* column i: the working indent is i; the second pair is at column j
C15_InBraces(k, ctx, i, j, close) ==
  Source = Indent(k) \o ctx \o <<" ", "{", "\n">> \o Indent(i) \o FirstPair
             \o <<"\n">> \o Indent(j) \o SecondPair \o close

\* the literal has no braces and its first pair is on the line below the
\* context, at column i: the working indent is i
C15_NoBraces(k, ctx, i, j) ==
  Source = Indent(k) \o ctx \o <<"\n">> \o Indent(i) \o FirstPair
             \o <<"\n">> \o Indent(j) \o SecondPair

C15_Closings == {<<"}">>} \cup {<<"\n">> \o Indent(e) \o <<"}">> : e \in 0..MaxObjIndent}

C15_TwoPairs == HasLiteral(parseOut.node, <<FirstProperty, SecondProperty>>)

C15_NextKeyAtWorkingIndent ==
  pc = "parsed" =>
    \A k \in {0, 2} : \A ctx \in C15_Contexts :
      \A i \in 0..MaxObjIndent : \A j \in 0..MaxObjIndent :
        /\ \A close \in C15_Closings :
             C15_InBraces(k, ctx, i, j, close) =>
               /\ (parseOut.tag = "ok" /\ C15_TwoPairs) => j = i
               /\ (i >= k /\ j > i) =>
                    /\ parseOut.tag = "err"
                    /\ parseOut.node.msg = "Unexpected indent. Key in an object body"
               /\ (i >= k /\ j < i) => parseOut.tag = "err"
        /\ C15_NoBraces(k, ctx, i, j) =>
             /\ (parseOut.tag = "ok" /\ C15_TwoPairs) => j = i
             /\ (ctx = <<"a", " ", "=">> /\ i >= k /\ j > i) =>
                  /\ parseOut.tag = "err"
                  /\ parseOut.node.msg = "Unexpected indent. Key in an object body"
             /\ (j < i /\ parseOut.tag = "ok") => HasLiteral(parseOut.node, <<FirstProperty>>)
        /\ (i = 0 /\ C15_InBraces(k, ctx, k, k, <<"\n">> \o Indent(j) \o <<"}">>)) =>
             /\ parseOut.tag = "ok"
             /\ C15_TwoPairs

(***************************************************************************)
(* C16: when a comma sits on its own line at a column below the floor      *)
(* fixed at the start of the literal (min_indent), the parser raises an    *)
(* error inside braces; in an unbracketed literal it raises no error, ends *)
(* the literal with the pairs read so far and restores the cursor to just  *)
(* before the newline that precedes the comma.                             *)
(***************************************************************************)
\* what follows the comma: the second pair on the line of the comma or below
C16_AfterComma ==
  {<<" ">> \o SecondPair} \cup {<<"\n">> \o Indent(j) \o SecondPair : j \in 0..MaxObjIndent}

\* an assignment at column k whose value is the unbracketed literal on the
\* line below, first key at column i (the floor), then a comma at column c
C16_Head(k, i) == Indent(k) \o <<"a", " ", "=", "\n">> \o Indent(i)

C16_NoBraces(k, i, c, rest) ==
  Source = C16_Head(k, i) \o FirstPair \o <<"\n">> \o Indent(c) \o <<",">> \o rest

\* the same in braces opened on the line of the assignment: the floor is k
C16_InBraces(k, c, rest) ==
  Source = Indent(k) \o <<"a", " ", "=", " ", "{">> \o FirstPair
             \o <<"\n">> \o Indent(c) \o <<",">> \o rest \o <<"}">>

\* parseObjectLiteral run where parseAssign runs it: at the first key, in the
\* block of indent k, with expr_indent = i
C16_Literal(k, i) ==
  Call("parseObjectLiteral",
       <<[parserReset EXCEPT !.pos = Len(C16_Head(k, i)), !.indentStack = <<k>>],
         IndentOpts(i)>>)

C16_CommaBelowFloor ==
  pc = "parsed" =>
    \A k \in {0, 2} : \A c \in 0..MaxObjIndent : \A rest \in C16_AfterComma :
      /\ (c < k /\ C16_InBraces(k, c, rest)) => parseOut.tag = "err"
      /\ \A i \in k..MaxObjIndent :
           (c < i /\ C16_NoBraces(k, i, c, rest)) =>
             /\ C16_Literal(k, i).tag = "ok"
             /\ C16_Literal(k, i).node = ObjectLiteral(<<FirstProperty>>)
             /\ C16_Literal(k, i).st.pos = Len(C16_Head(k, i)) + Len(FirstPair)
             /\ ~(/\ parseOut.tag = "err"
                  /\ parseOut.node.msg = "Missing indentation. Everything in object block")

(***************************************************************************)
(* C17: a call target alone on its line, followed by more-indented lines   *)
(* of `key : value` pairs, parses as one implicit call whose only argument *)
(* is the unbracketed object literal made of those pairs:                  *)
(* `foo` / `  hello : world` / `  'hello': 50221` is                        *)
(* FunctionCall(foo, [{hello: world, 'hello': 50221}]), also when the      *)
(* input ends with a line that holds only whitespace.                      *)
(***************************************************************************)
C17_Lines(i, last) ==
  <<"foo", "\n">> \o Indent(i) \o <<"hello", " ", ":", " ", "world", "\n">>
    \o Indent(i) \o <<"'hello'", ":", " ", "50221">> \o last

C17_Argument ==
  ObjectLiteral(<<[propertyId |-> Identifier("hello"), value |-> Identifier("world")],
                  [propertyId |-> StringLiteral("'hello'"), value |-> Number("50221")]>>)

C17_CallWithLiteralBelow ==
  pc = "parsed" =>
    \A i \in 1..MaxObjIndent :
      \A last \in {<<>>} \cup {<<"\n">> \o Indent(w) : w \in 1..MaxObjIndent} :
        Source = C17_Lines(i, last) =>
          /\ parseOut.tag = "ok"
          /\ parseOut.node.expressions = <<FunctionCall(Identifier("foo"), <<C17_Argument>>)>>

\* the characters of the k-th token of scan(), cut from the source
RECURSIVE TokenOffset(_, _)
TokenOffset(toks, k) ==
  IF k = 1 THEN 0 ELSE TokenOffset(toks, k - 1) + toks[k - 1].consumed

TokenChars(k) ==
  Substr(scanner.contents, TokenOffset(scanOut.tokens, k), scanOut.tokens[k].consumed)

(***************************************************************************)
(* C18: scanning a string literal opened by a double or a single quote     *)
(* that has no matching un-escaped closing quote before the next newline   *)
(* or the end of the input raises a scan error; scan() never returns a     *)
(* STRING token whose val lacks its closing quote.                         *)
(***************************************************************************)
RECURSIVE C18_Closed(_, _)
\* from its i-th character on, s runs up to an un-escaped quote like s[1],
\* which is its last character
C18_Closed(s, i) ==
  IF i > Len(s) THEN FALSE
  ELSE IF s[i] = "\\" THEN C18_Closed(s, i + 2)
  ELSE IF s[i] = s[1] THEN i = Len(s)
  ELSE C18_Closed(s, i + 1)

C18_UnterminatedStringRaises ==
  pc = "scanned" =>
    /\ scanOut.tag = "ok" =>
         \A k \in 1..Len(scanOut.tokens) :
           scanOut.tokens[k].type = "STRING" => C18_Closed(TokenChars(k), 2)
    /\ \A q \in {"\"", "'"} : \A end \in {<<>>, <<"\n">>, <<"\n", q>>} :
         scanner.contents = <<q, "a">> \o end => scanOut.tag = "err"

(***************************************************************************)
(* C19: a word that begins with a keyword or another alphabetic literal of *)
(* the common table and goes on with identifier characters (`returning`,   *)
(* `index`, `format`, `island`) is scanned as one IDENTIFIER token that    *)
(* covers the whole word, not as the keyword token and a token for the     *)
(* remainder.                                                              *)
(***************************************************************************)
C19_WordIsOneIdentifier ==
  pc = "scanned" =>
    \A w \in WordInputs :
      scanner.contents = w =>
        /\ scanOut.tag = "ok"
        /\ scanOut.tokens = <<Token("IDENTIFIER", Join(w), Len(w))>>

(***************************************************************************)
(* C20: for every multi-character literal of the common table (`->`, `=>`, *)
(* `++`, `--`, `==`, `!=`, `>=`, `<=`, `+=`, `-=`, `*=`, `/=`, `^=`, `|=`,  *)
(* `is`, `isnt`, `...`), the input that is exactly that literal scans to   *)
(* exactly one token whose val is the whole literal.                       *)
(***************************************************************************)
C20_Literals ==
  {<<"-", ">">>, <<"=", ">">>, <<"+", "+">>, <<"-", "-">>, <<"=", "=">>, <<"!", "=">>,
   <<">", "=">>, <<"<", "=">>, <<"+", "=">>, <<"-", "=">>, <<"*", "=">>, <<"/", "=">>,
   <<"^", "=">>, <<"|", "=">>, <<"i", "s">>, <<"i", "s", "n", "t">>, <<".", ".", ".">>}

C20_LiteralIsOneToken ==
  pc = "scanned" =>
    \A lit \in C20_Literals :
      scanner.contents = lit =>
        /\ scanOut.tag = "ok"
        /\ Len(scanOut.tokens) = 1
        /\ scanOut.tokens[1].val = Join(lit)
        /\ scanOut.tokens[1].consumed = Len(lit)

(***************************************************************************)
(* C21: whenever parseBinaryExpr meets a binary operator that has no entry *)
(* in the priority table (`|`, `^`, `in`, `of`), parsing fails with the    *)
(* 'undefined operator priority' error, whether that operator is the only  *)
(* binary operator of the expression or one of several in a chain.         *)
(***************************************************************************)
C21_UndefinedPriorityRaises ==
  (pc = "parsed" /\ Source \in UndefinedOpInputs) =>
    /\ parseOut.tag = "err"
    /\ parseOut.node.msg = "undefined operator priority"

\* in a chain, next to another operator, the statement of C21 holds
C21_InChain ==
  (pc = "parsed" /\ Source \in UndefinedOpInputs /\ Len(tokens) > 5) =>
    /\ parseOut.tag = "err"
    /\ parseOut.node.msg = "undefined operator priority"

(***************************************************************************)
(* C22: an assignment whose value is itself an assignment                  *)
(* (`a = b = c = 1`) is not accepted by the parser: parse() does not       *)
(* return a tree of nested Assign nodes for it.                            *)
(***************************************************************************)
RECURSIVE C22_HasNestedAssign(_)
C22_HasNestedAssign(node) ==
  \/ node.kind = "Assign" /\ node.value.kind = "Assign"
  \/ \E i \in 1..Len(Children(node)) : C22_HasNestedAssign(Children(node)[i])

C22_Target(t) ==
  IF Len(t) = 1 THEN Identifier(t[1])
  ELSE PropertyAccess(ThisExpression(Lexeme("@")), Identifier(t[2]))

C22_Nested(t1, op1, t2, op2, value) ==
  [kind |-> "Assign", target |-> C22_Target(t1), operator |-> Lexeme(op1),
   value |-> [kind |-> "Assign", target |-> C22_Target(t2), operator |-> Lexeme(op2),
              value |-> value]]

C23_Entry(k, i) ==
  [parserReset EXCEPT !.pos = Len(Indent(k) \o <<"obj", " ", "=", "\n">> \o Indent(i)),
                      !.indentStack = <<k>>]

C23_Literal(k, i) == Call("parseObjectLiteral", <<C23_Entry(k, i), IndentOpts(i)>>)

C23_Pairs ==
  ObjectLiteral(<<[propertyId |-> Identifier("a"), value |-> Number("1")],
                  [propertyId |-> Identifier("b"), value |-> Number("2")]>>)

C23_LiteralEndsRestored(k, i) ==
  /\ C23_Literal(k, i).tag = "ok"
  /\ C23_Literal(k, i).node = C23_Pairs
  /\ C23_Literal(k, i).st = [C23_Entry(k, i) EXCEPT !.pos = Len(FollowedHead(k, i))]

C23_NextLineIsNextStatement ==
  pc = "parsed" =>
    \A k \in {0, 2} : \A line \in FollowingLines :
      /\ \A i \in k..MaxObjIndent :
           Source = FollowedHead(k, i) \o <<"\n">> \o Indent(i) \o line =>
             C23_LiteralEndsRestored(k, i)
      /\ Source = FollowedHead(k, k) \o <<"\n">> \o Indent(k) \o line =>
           /\ parseOut.tag = "ok"
           /\ Len(parseOut.node.expressions) = 2
           /\ parseOut.node.expressions[1].kind = "Assign"
           /\ parseOut.node.expressions[1].value = C23_Pairs

\* for a line that begins with a key, the statement of C23 holds
C23_KeyWithoutColon ==
  pc = "parsed" =>
    \A k \in {0, 2} : \A line \in {<<"c", " ", "=", " ", "3">>, <<"hello", "(", ")">>, <<"3">>} :
      /\ \A i \in k..MaxObjIndent :
           Source = FollowedHead(k, i) \o <<"\n">> \o Indent(i) \o line =>
             C23_LiteralEndsRestored(k, i)
      /\ Source = FollowedHead(k, k) \o <<"\n">> \o Indent(k) \o line =>
           /\ parseOut.tag = "ok"
           /\ Len(parseOut.node.expressions) = 2
           /\ parseOut.node.expressions[1].kind = "Assign"
           /\ parseOut.node.expressions[1].value = C23_Pairs

(***************************************************************************)
(* C24: in the continuation loop of an implicit argument list, after an    *)
(* argument with no comma behind it a newline does not by itself end the   *)
(* list: when the next line lands at a column above block_indent (and,     *)
(* once imp_block_indent is set to the first column seen above             *)
(* block_indent, above that), its expression is a further argument;        *)
(* otherwise the list ends and the cursor goes back before the newline.    *)
(***************************************************************************)
\* the state parseFunctionCall calls parseImplicitFunctionCallArguments in:
\* at the blank behind the target `a`, in the block of indent k
C24_Entry(k) ==
  [parserReset EXCEPT !.pos = Len(Indent(k)) + 1, !.indentStack = <<k>>]

C24_Args(k) == Call("parseImplicitFunctionCallArguments", <<C24_Entry(k)>>)

\* `3` at column j is a further argument by the rule of C24
C24_Continues(k, i, j) == j > k /\ (i > k => j > i)

C24_DeeperLineIsArgument ==
  pc = "parsed" =>
    \A k \in {0, 2} : \A i \in k..MaxIndent : \A j \in 0..MaxIndent :
      \A last \in {<<>>, <<"\n">>} :
        Source = ContinuationLines(k, i, <<"\n">>, j) \o last =>
          IF C24_Continues(k, i, j)
          THEN /\ C24_Args(k).tag = "ok"
               /\ C24_Args(k).node = <<Number("1"), Number("2"), Number("3")>>
          ELSE /\ C24_Args(k).tag = "ok"
               /\ C24_Args(k).node = <<Number("1"), Number("2")>>
               /\ C24_Args(k).st.pos = Len(Indent(k) \o <<"a", " ", "1", ",", "\n">> \o Indent(i)) + 1

\* the list always ends at a newline that follows an argument with no comma
C24_NewlineEndsList ==
  pc = "parsed" =>
    \A k \in {0, 2} : \A i \in k..MaxIndent : \A j \in 0..MaxIndent :
      \A last \in {<<>>, <<"\n">>} :
        Source = ContinuationLines(k, i, <<"\n">>, j) \o last =>
          /\ C24_Args(k).tag = "ok"
          /\ C24_Args(k).node = <<Number("1"), Number("2")>>
          /\ C24_Args(k).st.pos = Len(Indent(k) \o <<"a", " ", "1", ",", "\n">> \o Indent(i)) + 1

(***************************************************************************)
(* C25: when a parenthesized expression is being parsed and the token      *)
(* after the inner expression is not `)`: with in_f_call > 0 the rule      *)
(* returns failure, raises nothing and leaves the whole parser state as it *)
(* was before the `(`; with in_f_call = 0 it raises a fatal error.  As a   *)
(* result `(foo 2, 3, 4)` parses as Parens(FunctionCall(foo, [2, 3, 4])).  *)
(***************************************************************************)
\* the parser at the `(` that is token p (from 0), f calls deep in the search
\* for a call target
C25_Entry(p, f) ==
  [parserReset EXCEPT !.pos = p, !.inFCall = f, !.indentStack = <<0>>]

C25_Inner(p, f) ==
  Call("parseExpression", <<[Taken(C25_Entry(p, f)) EXCEPT !.inParens = 1], NoOpts>>)

\* an inner expression was parsed and no `)` follows it
C25_Unclosed(p, f) ==
  /\ tokens[p + 1].type = "("
  /\ C25_Inner(p, f).tag = "ok"
  /\ peekToken(C25_Inner(p, f).st).type # ")"

C25_Rule(p, f) == Call("parseParentesiszedExpr", <<C25_Entry(p, f)>>)

C25_CallInParens ==
  Block(<<Parens(FunctionCall(Identifier("foo"), <<Number("2"), Number("3"), Number("4")>>))>>, 0)

C25_RewindInsideCallTarget ==
  pc = "parsed" =>
    /\ \A p \in 0..(Len(tokens) - 1) : \A f \in 0..2 :
         C25_Unclosed(p, f) =>
           IF f > 0
           THEN C25_Rule(p, f).tag = "none" /\ C25_Rule(p, f).st = C25_Entry(p, f)
           ELSE C25_Rule(p, f).tag = "err"
    /\ Source = <<"(", "foo", " ", "2", ",", " ", "3", ",", " ", "4", ")">> =>
         parseOut.tag = "ok" /\ parseOut.node = C25_CallInParens

\* `(foo 2` was parsed: the rule, tried for a call target at the `(`, found no
\* `)` behind `foo 2` and gave up with the state restored; tried again as a
\* primary expression it raised
C25_Witness ==
  /\ pc = "parsed"
  /\ Source = <<"(", "foo", " ", "2">>
  /\ C25_Unclosed(0, 1)
  /\ C25_Rule(0, 1) = None(C25_Entry(0, 1))
  /\ C25_Unclosed(0, 0)
  /\ C25_Rule(0, 0).tag = "err"
  /\ parseOut.tag = "err"

(***************************************************************************)
(* C26: whenever the cursor is between an opening `(` and its matching `)` *)
(* (in a parenthesized expression, a function parameter list or a          *)
(* parenthesized call argument list) in_parens > 0, so that a same-line    *)
(* block parsed there, as the body of `->` in `foo(-> a)`, ends at the `)` *)
(* and 'Unexpected )' is not raised.                                       *)
(***************************************************************************)
\* the functions and the if whose same-line block is followed by the `)`
C26_Bodies ==
  {<<"->", " ", "a">>, <<"->", " ", "a", ";", " ", "b">>, <<"(", "y", ")", " ", "->", " ", "a">>,
   <<"->", " ", "a", "(", ")">>, <<"if", " ", "c", " ", "then", " ", "d">>}

C26_ArgumentLists ==
  {ctx \in ParenContexts : ctx[1] \in {<<"foo", "(">>, <<"foo", "(", "1", ",", " ">>}
                           /\ ctx[2] = <<")">>}

C26_BlockEndsAtParen ==
  pc = "parsed" =>
    \A ctx \in ParenContexts : \A body \in C26_Bodies :
      (Head(ctx[2]) = ")" /\ Source = ctx[1] \o body \o ctx[2]) => parseOut.tag = "ok"

\* it holds in a parenthesized expression and in a parameter list
C26_InParensAndParameters ==
  pc = "parsed" =>
    \A ctx \in ParenContexts \ C26_ArgumentLists : \A body \in C26_Bodies :
      (Head(ctx[2]) = ")" /\ Source = ctx[1] \o body \o ctx[2]) => parseOut.tag = "ok"

\* in a parenthesized argument list the block does not end at the `)`
C26_ArgumentListRaises ==
  pc = "parsed" =>
    \A ctx \in C26_ArgumentLists : \A body \in C26_Bodies :
      Source = ctx[1] \o body \o ctx[2] =>
        parseOut.tag = "err" /\ parseOut.node.msg = "Unexpected )"

(***************************************************************************)
(* C27: when move_to_next_line is called with in_block = true and no token *)
(* other than trivia and NEWLINE remains, it sets eof = true and returns   *)
(* 0, whatever whitespace or comments follow the last NEWLINE; in every    *)
(* other case it returns the summed length of the WHITESPACE tokens        *)
(* between the last NEWLINE it skipped and the first non-trivia token.     *)
(***************************************************************************)
C27_Trivia == {"WHITESPACE", "COMMENT", "NEWLINE"}

\* the parser at token p (from 0), in the block of indent 0
C27_Entry(p) == [parserReset EXCEPT !.pos = p, !.indentStack = <<0>>]

\* moveToNextLine can be called there: at a NEWLINE, or at the start of the
\* tokens for a block
C27_Callable(p, inBlock) ==
  \/ p < Len(tokens) /\ tokens[p + 1].type = "NEWLINE"
  \/ p = 0 /\ inBlock

\* tokens from p on (from 0) that are neither trivia nor NEWLINE
C27_Remaining(p) == {q \in (p + 1)..Len(tokens) : tokens[q].type \notin C27_Trivia}

C27_FirstToken(p) == CHOOSE q \in C27_Remaining(p) : \A r \in C27_Remaining(p) : q <= r

\* the last NEWLINE before token q (from 1), 0 when there is none from p on
C27_LastNewline(p, q) ==
  LET nl == {n \in (p + 1)..(q - 1) : tokens[n].type = "NEWLINE"}
  IN IF nl = {} THEN p ELSE CHOOSE n \in nl : \A m \in nl : m <= n

RECURSIVE C27_Width(_, _)
C27_Width(from, to) ==
  IF from > to THEN 0
  ELSE (IF tokens[from].type = "WHITESPACE" THEN Len(tokens[from].val) ELSE 0)
         + C27_Width(from + 1, to)

C27_Moved(p, inBlock) == moveToNextLine(C27_Entry(p), inBlock)

C27_EofReturnsZero ==
  pc = "parsed" =>
    \A p \in 0..Len(tokens) :
      (C27_Callable(p, TRUE) /\ C27_Remaining(p) = {}) =>
        /\ C27_Moved(p, TRUE).tag = "ok"
        /\ C27_Moved(p, TRUE).st.eof
        /\ C27_Moved(p, TRUE).node = 0

\* at the end of the tokens eof is set and the blanks behind the last NEWLINE
\* are returned
C27_EofReturnsIndent ==
  pc = "parsed" =>
    \A p \in 0..Len(tokens) :
      (C27_Callable(p, TRUE) /\ C27_Remaining(p) = {}) =>
        /\ C27_Moved(p, TRUE).tag = "ok"
        /\ C27_Moved(p, TRUE).st.eof
        /\ C27_Moved(p, TRUE).node
             = C27_Width(C27_LastNewline(p, Len(tokens) + 1) + 1, Len(tokens))

\* before a token, the blanks between the last NEWLINE and the token are
\* returned
C27_ReturnsIndentOfLine ==
  pc = "parsed" =>
    \A p \in 0..Len(tokens) : \A inBlock \in BOOLEAN :
      (C27_Callable(p, inBlock) /\ C27_Remaining(p) # {} /\ C27_Moved(p, inBlock).tag = "ok") =>
        /\ ~C27_Moved(p, inBlock).st.eof
        /\ C27_Moved(p, inBlock).st.pos = C27_FirstToken(p) - 1
        /\ C27_Moved(p, inBlock).node
             = C27_Width(C27_LastNewline(p, C27_FirstToken(p)) + 1, C27_FirstToken(p) - 1)

(***************************************************************************)
(* C28: whenever one of the speculative expression rules (parseFunction,   *)
(* parseObjectLiteral, parseFunctionCall,                                  *)
(* parseImplicitFunctionCallArguments, parseIfExpression, parseAssign,     *)
(* parseParentesiszedExpr, parseUnaryExpr, parsePrimaryExpr) returns       *)
(* undefined instead of a node, the parser state (pos, inFCall, inParens,  *)
(* indentStack, eof) is what it was when the rule was entered.             *)
(***************************************************************************)
\* the states a rule is entered in: at any token, f calls deep in the search
\* for a call target and n parentheses deep
C28_Entries(f, n) ==
  {[parserReset EXCEPT !.pos = p, !.inFCall = f, !.inParens = n, !.indentStack = <<0>>] :
     p \in 0..Len(tokens)}

C28_Opts == {NoOpts, ImplicitArgOpts}

\* the rules without and with options
C28_Rules == {"parseFunction", "parseFunctionCall", "parseImplicitFunctionCallArguments",
              "parseAssign", "parseParentesiszedExpr"}

C28_RulesWithOpts == {"parseObjectLiteral", "parseIfExpression", "parseUnaryExpr",
                      "parsePrimaryExpr"}

\* a result of undefined leaves the state st of the entry
C28_Restored(r, st) == r.tag = "none" => r.st = st

C29_Lines(k, j, m, first) ==
  Indent(k) \o first \o <<"\n">> \o Indent(j) \o <<"b">> \o <<"\n">> \o Indent(m) \o <<"c">>

\* the block of the function or of the if that is the first statement; its
\* indent is what parseBlock pushed on the indentStack for it
C29_Body(node) ==
  IF node.kind = "Assign" THEN node.value.body ELSE node.block

C29_NestedBlockIsDeeper ==
  pc = "parsed" =>
    \A k \in 1..MaxIndent : \A j \in 0..MaxIndent : \A m \in 0..MaxIndent :
      \A first \in {<<"f", " ", "=", " ", "->">>, <<"if", " ", "c">>} :
        (Source = C29_Lines(k, j, m, first) /\ parseOut.tag = "ok") =>
          LET body == C29_Body(parseOut.node.expressions[1])
          IN /\ parseOut.node.indent = k
             /\ Len(body.expressions) > 0 => body.indent > k

\* a first line of the body that is indented less than the enclosing block
\* opens the nested block: the stack is then <<k, j>> with j < k
C29_ShallowerLineOpensBlock ==
  pc = "parsed" =>
    \A k \in 1..MaxIndent : \A j \in 0..(k - 1) :
      \A first \in {<<"f", " ", "=", " ", "->">>, <<"if", " ", "c">>} :
        Source = C29_Lines(k, j, j, first) =>
          /\ parseOut.tag = "ok"
          /\ parseOut.node.indent = k
          /\ Len(parseOut.node.expressions) = 1
          /\ C29_Body(parseOut.node.expressions[1])
               = Block(<<Identifier("b"), Identifier("c")>>, j)

(***************************************************************************)
(* C30: for every finite token vector, parse() after reset(tokens)         *)
(* terminates: it returns a Block or raises an error, because every        *)
(* iteration of the block, statement, call-chain, argument-list and        *)
(* object-literal loops consumes at least one token or leaves the loop.    *)
(***************************************************************************)
\* the iteration of the root block loop that comes next
C30_NextLine ==
  Call("BlockLine",
       <<state, state,
         IF parseOut.node.kind = "Block" THEN parseOut.node.indent ELSE -1,
         IF parseOut.node.kind = "Block" THEN parseOut.node ELSE EmptyBlock,
         TRUE>>)

\* an iteration returns, and when another follows it the cursor has moved
\* forward
C30_Consumes(r) ==
  /\ r.tag \in {"ok", "err", "continue"}
  /\ r.tag = "continue" => r.st.pos > state.pos

\* a loop entered at token p (from 0), in the block of indent 0
C30_Entry(p) == [parserReset EXCEPT !.pos = p, !.indentStack = <<0>>]

\* a loop that has returned n items is at least n tokens behind its entry
C30_Consumed(r, st, n) == r.tag \in {"ok", "break"} => r.st.pos >= st.pos + n

RECURSIVE C30_Calls(_)
C30_Calls(node) ==
  IF node.kind = "FunctionCall" THEN 1 + C30_Calls(node.target) ELSE 0

\* the statement, call-chain, argument-list and object-literal loops, entered
\* at every token of the input
C30_InnerLoopsConsume ==
  \A p \in 0..Len(tokens) :
    LET st == C30_Entry(p)
        statements == Call("StatementLoop", <<st, <<>>>>)
        chain == Call("FunctionCallLoop", <<st, Identifier("f"), Undef>>)
    IN /\ C30_Consumed(statements, st, Len(statements.node))
       /\ C30_Consumed(chain, st, C30_Calls(chain.node))
       /\ \A hadComma \in BOOLEAN :
            LET args == Call("ImplicitArgsLoop", <<st, <<>>, hadComma, 0, -1>>)
            IN C30_Consumed(args, st, Len(args.node))
       /\ \A isBracketed \in BOOLEAN : \A inlineObject \in BOOLEAN :
            LET props == Call("ObjectLoop", <<st, <<>>, 0, Undef, FALSE, isBracketed, 0,
                                            inlineObject>>)
            IN C30_Consumed(props, st, Len(props.node))

C30_Returned ==
  /\ pc = "parsed"
  /\ \/ parseOut.tag = "ok" /\ parseOut.node.kind = "Block"
     \/ parseOut.tag = "err" /\ parseOut.node.kind = "Error"

\* the cursor stays within the tokens and every iteration that another
\* follows moves it forward, so that parse() has returned a Block or thrown
\* after at most Len(tokens) + 1 iterations of each loop
C30_ParseTerminates ==
  /\ state.pos \in 0..Len(tokens)
  /\ pc = "parse" => C30_Consumes(C30_NextLine)
  /\ pc = "parse" /\ state.pos = 0 => C30_InnerLoopsConsume
  /\ pc = "leftover" => C30_Consumes(Call("LeftoverStep", <<state>>))
  /\ pc = "parsed" => C30_Returned

\* parse() by iterations ends as parse() does
C30_SameAsParse ==
  pc = "parsed" =>
    LET r == Call("parse", <<parserReset>>)
    IN /\ parseOut = [tag |-> r.tag, node |-> r.node, rootEnd |-> r.rootEnd]
       /\ state = r.st

\* `  a 1,` / `  2` / `  3` and a NEWLINE were parsed: two iterations of the
\* block loop, the first with the argument list over two lines, left the
\* NEWLINE to the loop of parse(), which took it and returned the block
C30_Witness ==
  /\ C30_Returned
  /\ Source = ContinuationLines(2, 2, <<"\n">>, 2) \o <<"\n">>
  /\ parseOut.tag = "ok"
  /\ Len(parseOut.node.expressions) = 2
  /\ state.pos = Len(tokens)
  /\ parseOut.rootEnd < Len(tokens)

====
